---- MODULE Spec2Model ----
(***************************************************************************)
(* Model of the agentic assistants of the repository.                      *)
(*                                                                         *)
(* src/Multiagent.py: the Streamlit script that ingests the uploaded files *)
(* into a list of tools, builds a zero-shot ReAct agent over them and      *)
(* answers one question per script run (specification Spec).               *)
(*                                                                         *)
(* src/app.py: the Streamlit script that keeps an API key, an LLM and an   *)
(* agent over one PDF in the session state and answers the questions of a  *)
(* form and of a quick input (specification AppSpec).                      *)
(*                                                                         *)
(* Both hand their questions to the same reasoning loop (agent.run).       *)
(*                                                                         *)
(* src/app_lite.py: the lite PDF assistant, which keeps the text of the    *)
(* PDF and sends its head with every question (specification LiteSpec;     *)
(* PdfSpec is app.py or app_lite.py).                                      *)
(*                                                                         *)
(* src/Flighthotel.py and src/langgraph.py: the parsing of the hotels      *)
(* field (HotelsSpec) and one invocation of the planner graph of           *)
(* langgraph.py (PlannerSpec).                                             *)
(*                                                                         *)
(* src/Hotel_SQL.py: the connect button and the question section of the    *)
(* SQL agent app (SqlSpec).                                                *)
(***************************************************************************)
EXTENDS Integers, Sequences, FiniteSets, TLC

(***************************************************************************)
(* Bounds of the model.                                                    *)
(***************************************************************************)
\* the largest number of files the user puts into the uploader
MaxFiles == 2

\* the longest text handed to the splitter, and the largest chunk size of a
\* splitter, in the specification of split_text
MaxTextLen == 6
MaxChunkSize == 4

\* Python's None, where the other values are records
None == [none |-> TRUE]

\* Python's None, where the other values are strings
NoneText == "<None>"

(***************************************************************************)
(* File names.  A name is a sequence of ASCII characters, so that lower()  *)
(* and endswith() are computed and not assumed.                            *)
(***************************************************************************)
\* the letters str.lower() changes in an ASCII name, and what it makes of them
UpperCase == << "A", "B", "C", "D", "E", "F", "G", "H", "I", "J", "K", "L", "M",
                "N", "O", "P", "Q", "R", "S", "T", "U", "V", "W", "X", "Y", "Z" >>
LowerCase == << "a", "b", "c", "d", "e", "f", "g", "h", "i", "j", "k", "l", "m",
                "n", "o", "p", "q", "r", "s", "t", "u", "v", "w", "x", "y", "z" >>

\* str.lower() of one character
Lower(c) ==
    IF \E k \in 1..Len(UpperCase) : UpperCase[k] = c
    THEN LowerCase[CHOOSE k \in 1..Len(UpperCase) : UpperCase[k] = c]
    ELSE c

\* str.lower()
LowerStr(s) == [k \in 1..Len(s) |-> Lower(s[k])]

\* str.endswith(suffix)
EndsWith(s, suffix) ==
    /\ Len(s) >= Len(suffix)
    /\ SubSeq(s, Len(s) - Len(suffix) + 1, Len(s)) = suffix

\* str.endswith((suffix, ...))
EndsWithAny(s, suffixes) == \E suffix \in suffixes : EndsWith(s, suffix)

\* what the bytes of a file hold: text, pages/cells without text, no page at
\* all, or bytes the loader of its kind cannot read
FileContents == {"text", "blank", "nopages", "corrupt"}

File(name, content) == [name |-> name, content |-> content]

\* the files the user has at hand
UploadedFile ==
    { File(<<"a", ".", "p", "d", "f">>, "text"),
      File(<<"a", ".", "p", "d", "f">>, "blank"),
      File(<<"a", ".", "p", "d", "f">>, "nopages"),
      File(<<"a", ".", "p", "d", "f">>, "corrupt"),
      File(<<"A", ".", "P", "D", "F">>, "text"),
      File(<<"B", ".", "D", "O", "C", "X">>, "text"),
      File(<<"c", ".", "p", "n", "g">>, "text"),
      File(<<"d", ".", "c", "s", "v">>, "text"),
      File(<<"d", ".", "c", "s", "v">>, "corrupt"),
      File(<<"e", ".", "t", "x", "t">>, "text") }

(***************************************************************************)
(* The branch of the file-processing loop a file name selects.             *)
(***************************************************************************)
Branch(filename) ==
    IF EndsWith(filename, <<".", "p", "d", "f">>) THEN "pdf"
    ELSE IF EndsWith(filename, <<".", "d", "o", "c", "x">>) THEN "docx"
    ELSE IF EndsWith(filename, <<".", "p", "p", "t", "x">>) THEN "pptx"
    ELSE IF EndsWithAny(filename, { <<".", "j", "p", "g">>,
                                    <<".", "j", "p", "e", "g">>,
                                    <<".", "p", "n", "g">> }) THEN "image"
    ELSE IF EndsWithAny(filename, { <<".", "c", "s", "v">>,
                                    <<".", "x", "l", "s">>,
                                    <<".", "x", "l", "s", "x">> }) THEN "spreadsheet"
    ELSE "unsupported"

\* result of a call that may raise
Ok(v) == [raised |-> FALSE, value |-> v]
Raise(e) == [raised |-> TRUE, value |-> e]

\* loader.load() of PyPDFLoader / UnstructuredWordDocumentLoader /
\* UnstructuredPowerPointLoader on the temporary copy tmp_path:
\* one Document per page, with the page's text
LoaderLoad(content, tmp_path) ==
    CASE content = "corrupt" -> Raise("LoaderError")
      [] content = "nopages" -> Ok(<< >>)
      [] content = "blank" ->
            Ok(<< [type |-> "Document", page_content |-> "", source |-> tmp_path] >>)
      [] OTHER ->
            Ok(<< [type |-> "Document", page_content |-> "text", source |-> tmp_path] >>)

\* Image.open + pytesseract.image_to_string, wrapped in a list of one dict
ImageLoad(content, tmp_path) ==
    CASE content \in {"corrupt", "nopages"} -> Raise("UnidentifiedImageError")
      [] content = "blank" ->
            Ok(<< [type |-> "dict", page_content |-> "", source |-> tmp_path] >>)
      [] OTHER ->
            Ok(<< [type |-> "dict", page_content |-> "text", source |-> tmp_path] >>)

\* pd.read_csv / pd.read_excel followed by create_pandas_dataframe_agent
SpreadsheetLoad(content, tmp_path) ==
    IF content \in {"corrupt", "nopages"} THEN Raise("ParserError")
    ELSE Ok([rows |-> content, source |-> tmp_path])

\* text_splitter.split_documents(documents): reads doc.page_content of every
\* element, which a dict does not have; a page without text gives no chunk
SplitDocuments(documents) ==
    IF \E k \in 1..Len(documents) : documents[k].type # "Document"
    THEN Raise("AttributeError")
    ELSE Ok(SelectSeq(documents, LAMBDA doc : doc.page_content # ""))

\* lines 107-111: the splitter call chosen by the type of documents[0]
SplitStage(documents) ==
    IF documents = << >> THEN Raise("IndexError")
    ELSE IF documents[1].type = "str" THEN Ok(<< documents[1] >>)
    ELSE SplitDocuments(documents)

\* an index builder that accepts an empty list of chunks
FaissAcceptsEmpty(docs) == Ok([chunks |-> docs])

\* FAISS.from_documents(docs, embeddings): no vectors, no index
FaissFromDocuments(docs) ==
    IF docs = << >> THEN Raise("IndexError") ELSE Ok([chunks |-> docs])

\* Tool(name=f"QA Tool - {filename}", ...)
QATool(filename, vectorstore) ==
    [name |-> [prefix |-> "QA Tool - ", filename |-> filename], kind |-> "retrieval", backing |-> vectorstore]

\* Tool(name=f"Spreadsheet - {filename}", ...)
DfTool(filename, df) ==
    [name |-> [prefix |-> "Spreadsheet - ", filename |-> filename], kind |-> "tabular", backing |-> df]

\* a registration that puts the new tool first
RegisterToolFirst(registry, tool) == <<tool>> \o registry

\* tools.append(tool)
RegisterTool(registry, tool) == Append(registry, tool)


(***************************************************************************)
(* One iteration of the file-processing loop (lines 47-125) as a function  *)
(* of the file and of its temporary copy: the messages it puts on the page *)
(* and the tool it appends, None when it appends none.                     *)
(***************************************************************************)
Message(level, text, about) == [level |-> level, text |-> text, about |-> about]

BranchInfo(branch) ==
    CASE branch = "pdf" -> "Processing PDF"
      [] branch = "docx" -> "Processing Word Document"
      [] branch = "pptx" -> "Processing PowerPoint"
      [] branch = "image" -> "Processing Image"
      [] OTHER -> "Processing Spreadsheet"

\* the except clause of the loop body
ErrorProcessing(filename, e) == Message("error", "Error processing", <<filename, e>>)

\* lines 106-122: split, embed, index, wrap as a retrieval tool
VectorQATool(filename, documents) ==
    LET docs == SplitStage(documents)
        vectorstore == FaissFromDocuments(docs.value)
    IN  IF docs.raised THEN Raise(docs.value)
        ELSE IF vectorstore.raised THEN Raise(vectorstore.value)
        ELSE Ok(QATool(filename, vectorstore.value))

\* a variable of the script: not yet assigned in this run, or its value
Unbound == [bound |-> FALSE, value |-> << >>]
Bound(v) == [bound |-> TRUE, value |-> v]

\* the iteration budget an AgentExecutor has when none is given
max_iterations == 15

\* create_pandas_dataframe_agent(llm, df, verbose=False, allow_dangerous_code=True),
\* line 88: an executor over the Python tool of the data frame
PandasDataframeAgent(df) ==
    [tools |-> << [name |-> [prefix |-> "python_repl_ast", filename |-> << >>],
                   kind |-> "python", backing |-> df] >>,
     handle_parsing_errors |-> FALSE, max_iterations |-> max_iterations, df |-> df]

\* a loop body that swallows the failure of a loader and goes on to the
\* vector stage with the variable documents as the file before left it
ProcessFileKeepsDocuments(file, tmp_path, before) ==
    LET filename == LowerStr(file.name)
        branch == Branch(filename)
        info == Message("info", BranchInfo(branch), filename)
        failed(e, now, split) ==
            [messages |-> <<info, ErrorProcessing(filename, e)>>, tool |-> None,
             documents |-> now, agent |-> Unbound, text_splitter |-> split]
        added(tool, now, sub) ==
            [messages |-> <<info>>, tool |-> tool, documents |-> now,
             agent |-> sub, text_splitter |-> ~sub.bound]
    IN  IF branch = "unsupported"
        THEN [messages |-> << Message("warning", "Unsupported file type", filename) >>,
              tool |-> None, documents |-> before,
              agent |-> Unbound, text_splitter |-> FALSE]
        ELSE IF branch = "spreadsheet"
        THEN LET df == SpreadsheetLoad(file.content, tmp_path)
             IN  IF df.raised THEN failed(df.value, before, FALSE)
                 ELSE added(DfTool(filename, df.value), before,
                            Bound(PandasDataframeAgent(df.value)))
        ELSE LET loaded == IF branch = "image"
                           THEN ImageLoad(file.content, tmp_path)
                           ELSE LoaderLoad(file.content, tmp_path)
                 now == IF loaded.raised THEN before ELSE Bound(loaded.value)
                 tool == VectorQATool(filename, now.value)
             IN  IF ~now.bound THEN failed("NameError", before, TRUE)
                 ELSE IF tool.raised THEN failed(tool.value, now, TRUE)
                 ELSE added(tool.value, now, Unbound)

\* the loop body for one file, entered with the variable documents as the
\* files before left it (before): the messages, the tool appended (None when
\* none is), the variable documents afterwards, the agent line 88 assigns
\* (Unbound when the body does not come to it) and whether the body came to
\* the splitter of line 107
ProcessFile(file, tmp_path, before) ==
    LET filename == LowerStr(file.name)
        branch == Branch(filename)
        info == Message("info", BranchInfo(branch), filename)
        failed(e, now, split) ==
            [messages |-> <<info, ErrorProcessing(filename, e)>>, tool |-> None,
             documents |-> now, agent |-> Unbound, text_splitter |-> split]
        added(tool, now, sub) ==
            [messages |-> <<info>>, tool |-> tool, documents |-> now,
             agent |-> sub, text_splitter |-> ~sub.bound]
    IN  IF branch = "unsupported"
        THEN [messages |-> << Message("warning", "Unsupported file type", filename) >>,
              tool |-> None, documents |-> before,
              agent |-> Unbound, text_splitter |-> FALSE]
        ELSE IF branch = "spreadsheet"
        THEN LET df == SpreadsheetLoad(file.content, tmp_path)
             IN  IF df.raised THEN failed(df.value, before, FALSE)
                 ELSE added(DfTool(filename, df.value), before,
                            Bound(PandasDataframeAgent(df.value)))
        ELSE LET loaded == IF branch = "image"
                           THEN ImageLoad(file.content, tmp_path)
                           ELSE LoaderLoad(file.content, tmp_path)
                 tool == VectorQATool(filename, loaded.value)
             IN  IF loaded.raised THEN failed(loaded.value, before, FALSE)
                 ELSE IF tool.raised THEN failed(tool.value, Bound(loaded.value), TRUE)
                 ELSE added(tool.value, Bound(loaded.value), Unbound)

(***************************************************************************)
(* RecursiveCharacterTextSplitter(chunk_size=..., chunk_overlap=...) and   *)
(* its split_text, as the scripts call it.  A text is a sequence of        *)
(* characters; the splitter is the record of its two settings.             *)
(***************************************************************************)
\* the settings of every splitter the scripts build
chunk_size == 1000
chunk_overlap == 200

\* RecursiveCharacterTextSplitter(chunk_size=1000, chunk_overlap=200)
TextSplitter == [chunk_size |-> chunk_size, chunk_overlap |-> chunk_overlap]

\* the default separators of the splitter: "\n\n", "\n", " ", ""
Separators == << <<"\n", "\n">>, <<"\n">>, <<" ">>, << >> >>

\* the characters of str.isspace(), which str.strip() removes; a character
\* that has no escape is written as its code point
Whitespace ==
    { "\t", "\n", "U+000B", "\f", "\r", "U+001C", "U+001D",
      "U+001E", "U+001F", " ", "U+0085", "U+00A0", "U+1680", "U+2000",
      "U+2001", "U+2002", "U+2003", "U+2004", "U+2005", "U+2006", "U+2007",
      "U+2008", "U+2009", "U+200A", "U+2028", "U+2029", "U+202F", "U+205F",
      "U+3000" }

\* str.strip()
RECURSIVE LStrip(_)
LStrip(s) == IF s # << >> /\ Head(s) \in Whitespace THEN LStrip(Tail(s)) ELSE s

RECURSIVE RStrip(_)
RStrip(s) ==
    IF s # << >> /\ s[Len(s)] \in Whitespace
    THEN RStrip(SubSeq(s, 1, Len(s) - 1))
    ELSE s

Strip(s) == RStrip(LStrip(s))

StartsWith(s, prefix) ==
    /\ Len(s) >= Len(prefix)
    /\ SubSeq(s, 1, Len(prefix)) = prefix

\* re.search(re.escape(separator), s)
Contains(s, separator) ==
    \E k \in 1..(Len(s) - Len(separator) + 1) :
        SubSeq(s, k, k + Len(separator) - 1) = separator

\* the pieces between the matches of re.split, left to right; piece is the
\* piece being read
RECURSIVE ReSplit(_, _, _)
ReSplit(s, separator, piece) ==
    IF s = << >> THEN << piece >>
    ELSE IF StartsWith(s, separator)
    THEN << piece >> \o ReSplit(SubSeq(s, Len(separator) + 1, Len(s)), separator, << >>)
    ELSE ReSplit(Tail(s), separator, Append(piece, Head(s)))

\* _split_text_with_regex(s, separator, keep_separator=True): every piece but
\* the first keeps the separator in front of it; empty pieces are dropped
SplitTextWithRegex(s, separator) ==
    LET pieces == ReSplit(s, separator, << >>)
        splits == IF separator = << >>
                  THEN [k \in 1..Len(s) |-> << s[k] >>]
                  ELSE << pieces[1] >> \o
                       [k \in 1..(Len(pieces) - 1) |-> separator \o pieces[k + 1]]
    IN  SelectSeq(splits, LAMBDA piece : piece # << >>)

\* separator.join(pieces)
RECURSIVE Join(_, _)
Join(pieces, separator) ==
    IF pieces = << >> THEN << >>
    ELSE IF Len(pieces) = 1 THEN pieces[1]
    ELSE pieces[1] \o separator \o Join(Tail(pieces), separator)

\* _join_docs: joined and stripped; the empty text stands for None
JoinDocs(pieces, separator) == Strip(Join(pieces, separator))

\* the "while total > chunk_overlap or ..." loop of _merge_splits
RECURSIVE PopWhile(_, _, _, _, _)
PopWhile(splitter, current_doc, total, len, separator_len) ==
    IF \/ total > splitter.chunk_overlap
       \/ /\ total + len + (IF Len(current_doc) > 0 THEN separator_len ELSE 0)
                > splitter.chunk_size
          /\ total > 0
    THEN PopWhile(splitter, Tail(current_doc),
                  total - (Len(current_doc[1])
                           + (IF Len(current_doc) > 1 THEN separator_len ELSE 0)),
                  len, separator_len)
    ELSE [current_doc |-> current_doc, total |-> total]

\* the "for d in splits" loop of _merge_splits and what follows it
RECURSIVE MergeLoop(_, _, _, _, _, _)
MergeLoop(splitter, splits, separator, merged, current_doc, total) ==
    IF splits = << >>
    THEN LET doc == JoinDocs(current_doc, separator)
         IN  IF doc = << >> THEN merged ELSE Append(merged, doc)
    ELSE LET d == Head(splits)
             separator_len == Len(separator)
             over == total + Len(d) + (IF Len(current_doc) > 0 THEN separator_len ELSE 0)
                        > splitter.chunk_size
             flush == over /\ Len(current_doc) > 0
             doc == JoinDocs(current_doc, separator)
             popped == IF flush
                       THEN PopWhile(splitter, current_doc, total, Len(d), separator_len)
                       ELSE [current_doc |-> current_doc, total |-> total]
             kept == Append(popped.current_doc, d)
         IN  MergeLoop(splitter, Tail(splits), separator,
                       IF flush /\ doc # << >> THEN Append(merged, doc) ELSE merged,
                       kept,
                       popped.total + Len(d)
                            + (IF Len(kept) > 1 THEN separator_len ELSE 0))

\* TextSplitter._merge_splits(splits, separator)
MergeSplits(splitter, splits, separator) ==
    MergeLoop(splitter, splits, separator, << >>, << >>, 0)

\* the first separator that is "" or occurs in the text, and those after it
RECURSIVE PickSeparator(_, _, _)
PickSeparator(s, separators, k) ==
    IF k > Len(separators)
    THEN [separator |-> separators[Len(separators)], new_separators |-> << >>]
    ELSE IF separators[k] = << >>
    THEN [separator |-> << >>, new_separators |-> << >>]
    ELSE IF Contains(s, separators[k])
    THEN [separator |-> separators[k],
          new_separators |-> SubSeq(separators, k + 1, Len(separators))]
    ELSE PickSeparator(s, separators, k + 1)

\* RecursiveCharacterTextSplitter._split_text(s, separators); SplitLoop is its
\* "for s in splits" loop and what follows it
RECURSIVE SplitTextRec(_, _, _)
RECURSIVE SplitLoop(_, _, _, _, _)
SplitLoop(splitter, splits, new_separators, good_splits, final_chunks) ==
    LET flushed == IF good_splits # << >>
                   THEN final_chunks \o MergeSplits(splitter, good_splits, << >>)
                   ELSE final_chunks
    IN  IF splits = << >> THEN flushed
        ELSE IF Len(Head(splits)) < splitter.chunk_size
        THEN SplitLoop(splitter, Tail(splits), new_separators,
                       Append(good_splits, Head(splits)), final_chunks)
        ELSE SplitLoop(splitter, Tail(splits), new_separators, << >>,
                       IF new_separators = << >>
                       THEN Append(flushed, Head(splits))
                       ELSE flushed \o SplitTextRec(splitter, Head(splits), new_separators))

SplitTextRec(splitter, s, separators) ==
    LET picked == PickSeparator(s, separators, 1)
    IN  SplitLoop(splitter, SplitTextWithRegex(s, picked.separator),
                  picked.new_separators, << >>, << >>)

\* text_splitter.split_text(s)
SplitText(splitter, s) == SplitTextRec(splitter, s, Separators)

(***************************************************************************)
(* State.                                                                  *)
(***************************************************************************)
VARIABLES
    uploaded_files,     \* value of the file uploader widget
    query,              \* value of the question text input
    pc,                 \* where the script run is: "start", "loop", "run", "end", ...
    i,                  \* position of the file-processing loop in uploaded_files
    tools,              \* the list of tools
    screen,             \* what the run has put on the page, in order
    agent,              \* the agent executor built over the tools, or None
    state,              \* state of the reasoning loop of agent.run
    iterations,         \* completed iterations of the reasoning loop
    intermediate_steps, \* number of (action, observation) steps recorded
    action,             \* tool name chosen by the last thinking step
    observation,        \* observation of the step in progress
    tool_calls,         \* history: did a tool call of this run return, did one raise
    asked,              \* history: questions handed to agent.run in this script run
    script,             \* the script the session runs: "Multiagent" or "app"
    groq_api_key,       \* app.py: st.session_state.groq_api_key
    llm,                \* Multiagent.py: the script's llm; app.py: st.session_state.llm
    pdf_processed,      \* app.py: st.session_state.pdf_processed
    api_key_input,      \* app.py: text of the API key input
    uploaded_file,      \* app.py: value of the PDF uploader
    button,             \* app.py: the button whose click started this run
    user_input,         \* app.py: text area of the question form
    quick_input,        \* app.py: text of the quick input
    text_splitter,      \* the RecursiveCharacterTextSplitter in use, or None
    page_content,       \* the text handed to text_splitter.split_text
    chunks,             \* the chunks split_text returned
    documents,          \* Multiagent.py: the script's variable documents
    tmp_path_exists,    \* is a temporary copy of some upload still on the disk
    client,             \* app_lite.py: st.session_state.client
    pdf_text,           \* app_lite.py: st.session_state.pdf_text
    question,           \* app_lite.py: text of the question input
    prompt,             \* app_lite.py: the prompt of this run's chat completion
    num_hotels_input,   \* Flighthotel.py, langgraph.py: text of the hotels field
    num_hotels,         \* Flighthotel.py, langgraph.py: the script's num_hotels
    travel_state,       \* langgraph.py: the state dict of the planner graph
    ran,                \* langgraph.py: the nodes this invocation has run
    connected,          \* Hotel_SQL.py: st.session_state["connected"]
    agent_executor,     \* Hotel_SQL.py: st.session_state["agent_executor"]
    db_engine,          \* Hotel_SQL.py: st.session_state["db_engine"]
    attempts,           \* Hotel_SQL.py: connect attempts of the session so far
    invoked,            \* Hotel_SQL.py: the executor this run has invoked
    session_keys        \* app.py, app_lite.py: the keys st.session_state holds

widgetVars == <<uploaded_files, query>>
scriptVars == <<pc, i, tools, screen, agent>>
runVars == <<state, iterations, intermediate_steps, action, observation, tool_calls, asked>>
sessionVars == <<groq_api_key, llm, pdf_processed>>
appWidgetVars == <<api_key_input, uploaded_file, button, user_input, quick_input>>
appVars == <<script, groq_api_key, llm, pdf_processed,
             api_key_input, uploaded_file, button, user_input, quick_input>>
splitVars == <<text_splitter, page_content, chunks>>
loopVars == <<documents>>
tmpVars == <<tmp_path_exists>>
keyVars == <<session_keys>>
liteVars == <<client, pdf_text, question, prompt>>
travelVars == <<num_hotels_input, num_hotels, travel_state, ran>>
sqlVars == <<connected, agent_executor, db_engine, attempts, invoked>>
vars == <<uploaded_files, query, pc, i, tools, screen, agent,
          state, iterations, intermediate_steps, action, observation, tool_calls, asked,
          script, groq_api_key, llm, pdf_processed,
          api_key_input, uploaded_file, button, user_input, quick_input,
          text_splitter, page_content, chunks, documents, tmp_path_exists,
          client, pdf_text, question, prompt,
          num_hotels_input, num_hotels, travel_state, ran,
          connected, agent_executor, db_engine, attempts, invoked,
          session_keys>>

\* a tool name the registry does not hold
UnknownTool == [prefix |-> "Search", filename |-> << >>]

ToolNames(registry) == {registry[k].name : k \in 1..Len(registry)}

NoCalls == [returned |-> FALSE, raised |-> FALSE]

\* an executor that goes on from the steps of the question before
AgentRunKeepsHistory ==
    /\ state' = "Thinking"
    /\ action' = None
    /\ observation' = ""
    /\ tool_calls' = NoCalls
    /\ asked' = asked + 1
    /\ UNCHANGED <<iterations, intermediate_steps>>

\* agent.run(question) is entered: a new reasoning loop
AgentRun ==
    /\ state' = "Thinking"
    /\ iterations' = 0
    /\ intermediate_steps' = 0
    /\ action' = None
    /\ observation' = ""
    /\ tool_calls' = NoCalls
    /\ asked' = asked + 1

\* a fresh script run: the script's variables of the run before are gone (llm
\* is bound again at line 32), tools = [] and nothing is on the page yet
StartRun ==
    /\ pc' = "start"
    /\ llm' = None
    /\ text_splitter' = None
    /\ i' = 1
    /\ tools' = << >>
    /\ screen' = << >>
    /\ agent' = None
    /\ state' = "Idle"
    /\ iterations' = 0
    /\ intermediate_steps' = 0
    /\ action' = None
    /\ observation' = ""
    /\ tool_calls' = NoCalls
    /\ asked' = 0
    /\ documents' = Unbound

\* GROQ_API_KEY as os.getenv gives it: not set, set to nothing, or a key
EnvironmentKeys == {NoneText, "", "gsk_1"}

\* a new session, before the first run of the script
Init ==
    /\ uploaded_files = << >>
    /\ query = ""
    /\ pc = "start"
    /\ i = 1
    /\ tools = << >>
    /\ screen = << >>
    /\ agent = None
    /\ state = "Idle"
    /\ iterations = 0
    /\ intermediate_steps = 0
    /\ action = None
    /\ observation = ""
    /\ tool_calls = NoCalls
    /\ asked = 0
    /\ script = "Multiagent"
    /\ groq_api_key \in EnvironmentKeys
    /\ llm = None
    /\ pdf_processed = FALSE
    /\ api_key_input = ""
    /\ uploaded_file = None
    /\ button = "none"
    /\ user_input = ""
    /\ quick_input = ""
    /\ text_splitter = None
    /\ page_content = << >>
    /\ chunks = << >>
    /\ documents = Unbound
    /\ tmp_path_exists = FALSE
    /\ client = None
    /\ pdf_text = None
    /\ question = ""
    /\ prompt = None
    /\ num_hotels_input = << >>
    /\ num_hotels = Unbound
    /\ travel_state = << >>
    /\ ran = << >>
    /\ connected = Unbound
    /\ agent_executor = Unbound
    /\ db_engine = Unbound
    /\ attempts = 0
    /\ invoked = Unbound
    /\ session_keys = {}

(***************************************************************************)
(* The user, between two runs of the script.                               *)
(***************************************************************************)
RemoveAt(s, k) == SubSeq(s, 1, k - 1) \o SubSeq(s, k + 1, Len(s))

UserUploads ==
    /\ script = "Multiagent"
    /\ pc = "end"
    /\ Len(uploaded_files) < MaxFiles
    /\ \E file \in UploadedFile : uploaded_files' = Append(uploaded_files, file)
    /\ UNCHANGED query
    /\ UNCHANGED <<script, groq_api_key, pdf_processed>>
    /\ UNCHANGED appWidgetVars
    /\ UNCHANGED <<page_content, chunks>>
    /\ UNCHANGED tmpVars
    /\ UNCHANGED liteVars
    /\ UNCHANGED travelVars
    /\ UNCHANGED sqlVars
    /\ UNCHANGED keyVars
    /\ StartRun

UserRemoves ==
    /\ script = "Multiagent"
    /\ pc = "end"
    /\ \E k \in 1..Len(uploaded_files) : uploaded_files' = RemoveAt(uploaded_files, k)
    /\ UNCHANGED query
    /\ UNCHANGED <<script, groq_api_key, pdf_processed>>
    /\ UNCHANGED appWidgetVars
    /\ UNCHANGED <<page_content, chunks>>
    /\ UNCHANGED tmpVars
    /\ UNCHANGED liteVars
    /\ UNCHANGED travelVars
    /\ UNCHANGED sqlVars
    /\ UNCHANGED keyVars
    /\ StartRun

\* the text input exists only on a page that has an agent
UserAsks ==
    /\ script = "Multiagent"
    /\ pc = "end"
    /\ agent # None
    /\ query' = IF query = "" THEN "question" ELSE ""
    /\ UNCHANGED uploaded_files
    /\ UNCHANGED <<script, groq_api_key, pdf_processed>>
    /\ UNCHANGED appWidgetVars
    /\ UNCHANGED <<page_content, chunks>>
    /\ UNCHANGED tmpVars
    /\ UNCHANGED liteVars
    /\ UNCHANGED travelVars
    /\ UNCHANGED sqlVars
    /\ UNCHANGED keyVars
    /\ StartRun

(***************************************************************************)
(* The script run.                                                         *)
(***************************************************************************)
\* lines 21-32: the key of the environment; without one the script writes an
\* error and stops before the uploader, with one it builds the LLM
LoadKey ==
    /\ script = "Multiagent"
    /\ pc = "start"
    /\ IF groq_api_key \in {NoneText, ""}
       THEN /\ screen' = Append(screen,
                    Message("error", "GROQ_API_KEY not found", << >>))
            /\ pc' = "stopped"
            /\ UNCHANGED llm
       ELSE /\ llm' = [api_key |-> groq_api_key]
            /\ pc' = "loop"
            /\ UNCHANGED screen
    /\ UNCHANGED <<i, tools, agent>>
    /\ UNCHANGED widgetVars
    /\ UNCHANGED <<script, groq_api_key, pdf_processed>>
    /\ UNCHANGED appWidgetVars
    /\ UNCHANGED splitVars
    /\ UNCHANGED tmpVars
    /\ UNCHANGED liteVars
    /\ UNCHANGED travelVars
    /\ UNCHANGED sqlVars
    /\ UNCHANGED keyVars
    /\ UNCHANGED loopVars
    /\ UNCHANGED runVars

\* a loop whose try/except is around the whole loop: the first failure ends it
FileLoopAbortsOnError ==
    /\ script = "Multiagent"
    /\ pc = "loop"
    /\ i <= Len(uploaded_files)
    /\ LET r == ProcessFile(uploaded_files[i], i, documents)
           failed == \E m \in 1..Len(r.messages) : r.messages[m].level = "error"
       IN  /\ screen' = screen \o r.messages
           /\ tools' = IF r.tool = None THEN tools ELSE RegisterTool(tools, r.tool)
           /\ documents' = r.documents
           /\ agent' = IF r.agent.bound THEN r.agent.value ELSE agent
           /\ text_splitter' = IF r.text_splitter THEN TextSplitter ELSE text_splitter
           /\ i' = IF failed THEN Len(uploaded_files) + 1 ELSE i + 1
    /\ UNCHANGED pc
    /\ UNCHANGED widgetVars
    /\ UNCHANGED <<page_content, chunks>>
    /\ tmp_path_exists' = TRUE
    /\ UNCHANGED liteVars
    /\ UNCHANGED travelVars
    /\ UNCHANGED sqlVars
    /\ UNCHANGED keyVars
    /\ UNCHANGED appVars
    /\ UNCHANGED runVars

\* one iteration of "for file in uploaded_files"
FileLoop ==
    /\ script = "Multiagent"
    /\ pc = "loop"
    /\ i <= Len(uploaded_files)
    /\ LET r == ProcessFile(uploaded_files[i], i, documents)
       IN  /\ screen' = screen \o r.messages
           /\ tools' = IF r.tool = None THEN tools ELSE RegisterTool(tools, r.tool)
           /\ documents' = r.documents
           /\ agent' = IF r.agent.bound THEN r.agent.value ELSE agent
           /\ text_splitter' = IF r.text_splitter THEN TextSplitter ELSE text_splitter
    /\ i' = i + 1
    /\ UNCHANGED pc
    /\ UNCHANGED widgetVars
    /\ UNCHANGED <<page_content, chunks>>
    /\ tmp_path_exists' = TRUE
    /\ UNCHANGED liteVars
    /\ UNCHANGED travelVars
    /\ UNCHANGED sqlVars
    /\ UNCHANGED keyVars
    /\ UNCHANGED appVars
    /\ UNCHANGED runVars

\* initialize_agent(tools=tools, llm=llm, agent=ZERO_SHOT_REACT_DESCRIPTION)
InitializeAgent(registry) ==
    [tools |-> registry, handle_parsing_errors |-> FALSE, max_iterations |-> max_iterations]

\* a test that lets an empty list through
HasToolsAlways(registry) == TRUE

\* "if tools:"
HasTools(registry) == registry # << >>

\* an agent built as soon as the list holds a tool, the loop not yet at its end
CreateAgentEarly ==
    /\ script = "Multiagent"
    /\ pc = "loop"
    /\ HasTools(tools)
    /\ agent' = InitializeAgent(tools)
    /\ IF query # ""
       THEN /\ pc' = "run"
            /\ AgentRun
       ELSE /\ pc' = "end"
            /\ UNCHANGED runVars
    /\ UNCHANGED <<i, tools, screen>>
    /\ UNCHANGED widgetVars
    /\ UNCHANGED splitVars
    /\ UNCHANGED tmpVars
    /\ UNCHANGED liteVars
    /\ UNCHANGED travelVars
    /\ UNCHANGED sqlVars
    /\ UNCHANGED keyVars
    /\ UNCHANGED loopVars
    /\ UNCHANGED appVars

\* lines 128-139: the agent is built and the question, if any, handed to it
CreateAgent ==
    /\ script = "Multiagent"
    /\ pc = "loop"
    /\ i > Len(uploaded_files)
    /\ HasTools(tools)
    /\ agent' = InitializeAgent(tools)
    /\ IF query # ""
       THEN /\ pc' = "run"
            /\ AgentRun
       ELSE /\ pc' = "end"
            /\ UNCHANGED runVars
    /\ UNCHANGED <<i, tools, screen>>
    /\ UNCHANGED widgetVars
    /\ UNCHANGED splitVars
    /\ UNCHANGED tmpVars
    /\ UNCHANGED liteVars
    /\ UNCHANGED travelVars
    /\ UNCHANGED sqlVars
    /\ UNCHANGED keyVars
    /\ UNCHANGED loopVars
    /\ UNCHANGED appVars

\* lines 147-148; the text input is not on the page and loses its value
NoTools ==
    /\ script = "Multiagent"
    /\ pc = "loop"
    /\ i > Len(uploaded_files)
    /\ ~HasTools(tools)
    /\ screen' = Append(screen,
            Message("warning", "Please upload at least one supported file.", << >>))
    /\ query' = ""
    /\ pc' = "end"
    /\ UNCHANGED <<i, tools, agent>>
    /\ UNCHANGED uploaded_files
    /\ UNCHANGED appVars
    /\ UNCHANGED splitVars
    /\ UNCHANGED tmpVars
    /\ UNCHANGED liteVars
    /\ UNCHANGED travelVars
    /\ UNCHANGED sqlVars
    /\ UNCHANGED keyVars
    /\ UNCHANGED loopVars
    /\ UNCHANGED runVars


(***************************************************************************)
(* src/app.py: the agentic PDF assistant.                                  *)
(***************************************************************************)
\* the keys the user may type; the last one is refused by ChatGroq
KeyTexts == {"gsk_1", "gsk_2", "bad"}

\* the PDFs the user has at hand
PdfFiles == {[content |-> c] : c \in FileContents}

Questions == {"question"}

ResetAgentNever(changed, current) == current

\* app.py line 41: the agent is reset when the key changes
ResetAgent(changed, current) == IF changed THEN None ELSE current

ValidatedKeyKept(built, text) == text

\* the key the session holds after the try of the key update block: the except
\* clause sets it to None again (app.py line 52, app_lite.py line 43)
ValidatedKey(built, text) == IF built.raised THEN NoneText ELSE text

\* ChatGroq(api_key=..., model_name=..., ...)
ChatGroq(api_key) ==
    IF api_key = "bad" THEN Raise("invalid api key") ELSE Ok([api_key |-> api_key])

\* Tool(name="PDF Retriever", func=retrieval_qa.run, ...)
PdfRetriever(vectorstore) ==
    [name |-> [prefix |-> "PDF Retriever", filename |-> << >>],
     kind |-> "retrieval", backing |-> vectorstore]

\* initialize_agent(tools=[tool], llm=llm, ..., handle_parsing_errors=True)
AppInitializeAgent(tool, model) ==
    [tools |-> <<tool>>, handle_parsing_errors |-> TRUE,
     max_iterations |-> max_iterations, llm |-> model]

\* setup_agent(file, llm): the agent, or None, what it writes on the page, and
\* whether the temporary copy this call made at lines 77-79 is still there
\* when it returns: os.unlink(tmp_path) is at line 133 only, after the agent
\* is built, and removes the copy of this call, not one an earlier call left
SetupAgent(file, model) ==
    LET loaded == LoaderLoad(file.content, 0)
        docs == SplitDocuments(loaded.value)
        vectorstore == FaissFromDocuments(docs.value)
        Write(text) == Message("write", text, << >>)
        loading == << Write("Loading PDF...") >>
        splitting == loading \o << Write("Loaded pages"),
                                   Write("Splitting text into chunks...") >>
        building == splitting \o << Write("Created chunks"),
                                    Write("Creating embeddings..."),
                                    Write("Building vector store...") >>
        failed(written, e) ==
            [agent |-> None, tmp_path_exists |-> TRUE,
             messages |-> written \o << Message("error", "Failed to set up agent", <<e>>),
                                        Message("error", "Debug info", <<e>>) >>]
    IN  IF loaded.raised THEN failed(loading, loaded.value)
        ELSE IF loaded.value = << >>
        THEN [agent |-> None, tmp_path_exists |-> TRUE,
              messages |-> Append(loading,
                                  Message("error", "No content found in PDF", << >>))]
        ELSE IF docs.raised THEN failed(splitting, docs.value)
        ELSE IF vectorstore.raised THEN failed(building, vectorstore.value)
        ELSE [agent |-> AppInitializeAgent(PdfRetriever(vectorstore.value), model),
              tmp_path_exists |-> FALSE,
              messages |-> building \o << Write("Setting up retrieval chain..."),
                                          Write("Initializing agent...") >>]

\* a rerun of the script: an empty page, no reasoning loop
AppStartRun ==
    /\ pc' = "start"
    /\ screen' = << >>
    /\ state' = "Idle"
    /\ iterations' = 0
    /\ intermediate_steps' = 0
    /\ action' = None
    /\ observation' = ""
    /\ tool_calls' = NoCalls
    /\ asked' = 0
    /\ UNCHANGED <<i, tools>>
    /\ UNCHANGED widgetVars
    /\ UNCHANGED splitVars
    /\ UNCHANGED tmpVars
    /\ UNCHANGED liteVars
    /\ UNCHANGED travelVars
    /\ UNCHANGED sqlVars
    /\ UNCHANGED keyVars
    /\ UNCHANGED loopVars
    /\ UNCHANGED script

\* the uploader, the buttons and the question inputs are on the page
UploaderShown == groq_api_key # NoneText
ProcessButtonShown == UploaderShown /\ uploaded_file # None /\ llm # None
QuestionsShown == UploaderShown /\ agent # None /\ pdf_processed

AppUserEntersKey ==
    /\ script = "app"
    /\ pc \in {"end", "rerun"}
    /\ \E text \in KeyTexts \cup {""} :
        /\ text # api_key_input
        /\ api_key_input' = text
    /\ button' = "none"
    /\ UNCHANGED <<uploaded_file, user_input, quick_input>>
    /\ UNCHANGED sessionVars
    /\ UNCHANGED agent
    /\ AppStartRun

AppUserChoosesFile ==
    /\ script = "app"
    /\ pc \in {"end", "rerun"}
    /\ pc = "end" => UploaderShown
    /\ \E file \in PdfFiles \cup {None} :
        /\ file # uploaded_file
        /\ uploaded_file' = file
    /\ button' = "none"
    /\ UNCHANGED <<api_key_input, user_input, quick_input>>
    /\ UNCHANGED sessionVars
    /\ UNCHANGED agent
    /\ AppStartRun

AppUserClicksProcess ==
    /\ script = "app"
    /\ pc = "end"
    /\ ProcessButtonShown
    /\ button' = "process"
    /\ UNCHANGED <<api_key_input, uploaded_file, user_input, quick_input>>
    /\ UNCHANGED sessionVars
    /\ UNCHANGED agent
    /\ AppStartRun

AppUserClicksReset ==
    /\ script = "app"
    /\ pc = "end"
    /\ UploaderShown
    /\ button' = "reset"
    /\ UNCHANGED <<api_key_input, uploaded_file, user_input, quick_input>>
    /\ UNCHANGED sessionVars
    /\ UNCHANGED agent
    /\ AppStartRun

AppUserSubmitsForm ==
    /\ script = "app"
    /\ pc = "end"
    /\ QuestionsShown
    /\ \E text \in Questions \cup {""} : user_input' = text
    /\ button' = "submit"
    /\ UNCHANGED <<api_key_input, uploaded_file, quick_input>>
    /\ UNCHANGED sessionVars
    /\ UNCHANGED agent
    /\ AppStartRun

AppUserQuickInput ==
    /\ script = "app"
    /\ pc = "end"
    /\ QuestionsShown
    /\ \E text \in Questions \cup {""} :
        /\ text # quick_input
        /\ quick_input' = text
    /\ button' = "none"
    /\ UNCHANGED <<api_key_input, uploaded_file, user_input>>
    /\ UNCHANGED sessionVars
    /\ UNCHANGED agent
    /\ AppStartRun

SessionDefaultsProcessed ==
    [groq_api_key |-> NoneText, agent |-> None, llm |-> None, pdf_processed |-> TRUE]

\* lines 19-26: the values the script gives to the keys the session lacks
SessionDefaults ==
    [groq_api_key |-> NoneText, agent |-> None, llm |-> None, pdf_processed |-> FALSE]

\* the keys app.py keeps in st.session_state
AppSessionKeys == {"groq_api_key", "agent", "llm", "pdf_processed"}

\* lines 19-26: each key the session lacks is set to its default
AppSessionInit ==
    /\ script = "app"
    /\ pc = "start"
    /\ groq_api_key' = IF "groq_api_key" \in session_keys THEN groq_api_key
                       ELSE SessionDefaults.groq_api_key
    /\ agent' = IF "agent" \in session_keys THEN agent ELSE SessionDefaults.agent
    /\ llm' = IF "llm" \in session_keys THEN llm ELSE SessionDefaults.llm
    /\ pdf_processed' = IF "pdf_processed" \in session_keys THEN pdf_processed
                        ELSE SessionDefaults.pdf_processed
    /\ session_keys' = session_keys \cup AppSessionKeys
    /\ pc' = "key"
    /\ UNCHANGED script
    /\ UNCHANGED appWidgetVars
    /\ UNCHANGED <<i, tools, screen>>
    /\ UNCHANGED widgetVars
    /\ UNCHANGED splitVars
    /\ UNCHANGED tmpVars
    /\ UNCHANGED liteVars
    /\ UNCHANGED travelVars
    /\ UNCHANGED sqlVars
    /\ UNCHANGED loopVars
    /\ UNCHANGED runVars

\* lines 37-68: the API key update block and the stop without a key; widgets
\* below a stop are not on the page and lose their values
AppKeyBlock ==
    /\ script = "app"
    /\ pc = "key"
    /\ LET changed == api_key_input # "" /\ api_key_input # groq_api_key
           built == ChatGroq(api_key_input)
           key == IF ~changed THEN groq_api_key
                  ELSE ValidatedKey(built, api_key_input)
           page == IF ~changed THEN screen
                   ELSE IF built.raised
                   THEN Append(screen, Message("error", "Invalid API Key", <<built.value>>))
                   ELSE Append(screen, Message("success", "API Key validated!", << >>))
       IN  /\ groq_api_key' = key
           /\ llm' = IF ~changed THEN llm
                     ELSE IF built.raised THEN None ELSE built.value
           /\ agent' = ResetAgent(changed, agent)
           /\ IF key = NoneText
              THEN /\ screen' = Append(page,
                        Message("info", "Please enter your GROQ API key", << >>))
                   /\ pc' = "end"
                   /\ uploaded_file' = None
                   /\ user_input' = ""
                   /\ quick_input' = ""
              ELSE /\ screen' = page
                   /\ pc' = "process"
                   /\ UNCHANGED <<uploaded_file, user_input, quick_input>>
    /\ UNCHANGED <<pdf_processed, api_key_input, button, script>>
    /\ UNCHANGED <<i, tools>>
    /\ UNCHANGED widgetVars
    /\ UNCHANGED splitVars
    /\ UNCHANGED tmpVars
    /\ UNCHANGED liteVars
    /\ UNCHANGED travelVars
    /\ UNCHANGED sqlVars
    /\ UNCHANGED keyVars
    /\ UNCHANGED loopVars
    /\ UNCHANGED runVars

ProcessedAgentUnguarded(built, current) == built

\* lines 145-147: the agent of the session after setup_agent has returned
ProcessedAgent(built, current) == IF built # None THEN built ELSE current

\* lines 143-151: the Process PDF button
AppProcessButton ==
    /\ script = "app"
    /\ pc = "process"
    /\ IF uploaded_file # None /\ llm # None /\ button = "process"
       THEN LET r == SetupAgent(uploaded_file, llm)
            IN  /\ agent' = ProcessedAgent(r.agent, agent)
                /\ IF r.agent # None
                   THEN /\ pdf_processed' = TRUE
                        /\ screen' = Append(screen \o r.messages,
                                            Message("success", "Agent is ready!", << >>))
                   ELSE /\ screen' = screen \o r.messages
                        /\ UNCHANGED pdf_processed
       ELSE UNCHANGED <<agent, pdf_processed, screen>>
    /\ IF uploaded_file # None /\ llm # None /\ button = "process"
       THEN tmp_path_exists' =
                (tmp_path_exists \/ SetupAgent(uploaded_file, llm).tmp_path_exists)
       ELSE UNCHANGED tmp_path_exists
    /\ UNCHANGED liteVars
    /\ UNCHANGED travelVars
    /\ UNCHANGED sqlVars
    /\ UNCHANGED keyVars
    /\ pc' = "reset"
    /\ UNCHANGED <<groq_api_key, llm, script>>
    /\ UNCHANGED appWidgetVars
    /\ UNCHANGED <<i, tools>>
    /\ UNCHANGED widgetVars
    /\ UNCHANGED splitVars
    /\ UNCHANGED loopVars
    /\ UNCHANGED runVars

\* lines 154-157: the Reset button deletes every key of the session state and
\* st.rerun() leaves the run; a deleted key has no value, the variables below
\* keep a placeholder until lines 19-26 of the next run set them.  The form
\* and the quick input are not on the page of this run and lose their values
AppResetButton ==
    /\ script = "app"
    /\ pc = "reset"
    /\ IF button = "reset"
       THEN /\ session_keys' = {}
            /\ groq_api_key' = NoneText
            /\ llm' = None
            /\ agent' = None
            /\ pdf_processed' = FALSE
            /\ user_input' = ""
            /\ quick_input' = ""
            /\ button' = "none"
            /\ pc' = "rerun"
       ELSE /\ pc' = "question"
            /\ UNCHANGED <<groq_api_key, llm, agent, pdf_processed, session_keys>>
            /\ UNCHANGED <<user_input, quick_input, button>>
    /\ UNCHANGED <<api_key_input, uploaded_file, script, screen>>
    /\ UNCHANGED <<i, tools>>
    /\ UNCHANGED widgetVars
    /\ UNCHANGED splitVars
    /\ UNCHANGED tmpVars
    /\ UNCHANGED liteVars
    /\ UNCHANGED travelVars
    /\ UNCHANGED sqlVars
    /\ UNCHANGED loopVars
    /\ UNCHANGED runVars

\* the run st.rerun() asked for starts, the widgets as they are
AppRerun ==
    /\ script = "app"
    /\ pc = "rerun"
    /\ UNCHANGED appWidgetVars
    /\ UNCHANGED sessionVars
    /\ UNCHANGED agent
    /\ AppStartRun

\* lines 168-189 and 202-206: the question form
AppQuestionForm ==
    /\ script = "app"
    /\ pc = "question"
    /\ IF agent # None /\ pdf_processed
       THEN /\ IF button = "submit" /\ user_input # ""
               THEN /\ pc' = "form"
                    /\ AgentRun
               ELSE /\ pc' = "quick_input"
                    /\ UNCHANGED runVars
            /\ UNCHANGED <<screen, user_input, quick_input>>
       ELSE /\ pc' = "end"
            /\ screen' = IF uploaded_file # None /\ agent = None
                         THEN Append(screen, Message("info", "Click 'Process PDF'", << >>))
                         ELSE IF uploaded_file = None
                         THEN Append(screen, Message("info", "Please upload a PDF file", << >>))
                         ELSE screen
            /\ user_input' = ""
            /\ quick_input' = ""
            /\ UNCHANGED runVars
    /\ UNCHANGED <<api_key_input, uploaded_file, button, script>>
    /\ UNCHANGED sessionVars
    /\ UNCHANGED <<i, tools, agent>>
    /\ UNCHANGED widgetVars
    /\ UNCHANGED splitVars
    /\ UNCHANGED tmpVars
    /\ UNCHANGED liteVars
    /\ UNCHANGED travelVars
    /\ UNCHANGED sqlVars
    /\ UNCHANGED keyVars
    /\ UNCHANGED loopVars

\* lines 191-201: the quick input
AppQuickInput ==
    /\ script = "app"
    /\ pc = "quick_input"
    /\ IF quick_input # ""
       THEN /\ pc' = "quick"
            /\ AgentRun
       ELSE /\ pc' = "end"
            /\ UNCHANGED runVars
    /\ UNCHANGED <<i, tools, screen, agent>>
    /\ UNCHANGED widgetVars
    /\ UNCHANGED splitVars
    /\ UNCHANGED tmpVars
    /\ UNCHANGED liteVars
    /\ UNCHANGED travelVars
    /\ UNCHANGED sqlVars
    /\ UNCHANGED keyVars
    /\ UNCHANGED loopVars
    /\ UNCHANGED appVars

(***************************************************************************)
(* agent.run(question): the reasoning loop of the agent executor.          *)
(* Thinking -> ActionSelected -> Observing -> Thinking, until the LLM      *)
(* gives a final answer (Finished), the iteration limit is reached         *)
(* (Aborted) or an exception leaves the loop (Raised).                     *)
(***************************************************************************)
IterationLimitText == "Agent stopped due to iteration limit or time limit."

\* the dict {tool.name: tool for tool in tools} of the executor
NameToToolMap(registry) ==
    [name \in ToolNames(registry) |->
        registry[CHOOSE k \in 1..Len(registry) :
                    /\ registry[k].name = name
                    /\ \A m \in (k + 1)..Len(registry) : registry[m].name # name]]

\* the tool list of the agent's prompt
PromptTools(executor) == [k \in 1..Len(executor.tools) |-> executor.tools[k].name]

\* lines 143-144: st.markdown("Answer:"); st.write(result)
ShowAnswer(page, result) ==
    page \o << Message("markdown", "Answer:", << >>), Message("write", result, << >>) >>

\* an except clause that swallows the exception
ShowNothing(page, e) == page

\* lines 145-146: st.error(f"Failed to answer: {e}")
ShowFailure(page, e) == Append(page, Message("error", "Failed to answer", <<e>>))

\* a handler that writes the question back in place of the answer
AppShowQuestion(page, answer) ==
    page \o << Message("success", "Answer:", << >>), Message("write", "question", << >>) >>

\* app.py lines 185-186 and 198-199: st.success("Answer:"); st.write(answer)
AppShowAnswer(page, answer) ==
    page \o << Message("success", "Answer:", << >>), Message("write", answer, << >>) >>

\* app.py lines 187-189: the except clause of the form
AppShowFormFailure(page, e) ==
    page \o << Message("error", "Error generating answer", <<e>>),
               Message("error", "Debug info", <<e>>) >>

\* app.py lines 200-201: the except clause of the quick input
AppShowQuickFailure(page, e) == Append(page, Message("error", "Error", <<e>>))

\* the places of the scripts that call agent.run, and where each goes on
RunPcs == {"run", "form", "quick"}
Running == pc \in RunPcs
AfterRun(at) == IF at = "form" THEN "quick_input" ELSE "end"

\* agent.run returns result to the script
Returns(final, result) ==
    /\ state' = final
    /\ screen' = IF pc = "run" THEN ShowAnswer(screen, result)
                 ELSE AppShowAnswer(screen, result)
    /\ pc' = AfterRun(pc)
    /\ UNCHANGED <<i, tools, agent>>
    /\ UNCHANGED widgetVars
    /\ UNCHANGED splitVars
    /\ UNCHANGED tmpVars
    /\ UNCHANGED liteVars
    /\ UNCHANGED travelVars
    /\ UNCHANGED sqlVars
    /\ UNCHANGED keyVars
    /\ UNCHANGED loopVars
    /\ UNCHANGED appVars
    /\ UNCHANGED <<iterations, intermediate_steps, action, observation, tool_calls, asked>>

\* an exception leaves agent.run and reaches the script's except clause
Raises(e) ==
    /\ state' = "Raised"
    /\ screen' = CASE pc = "run" -> ShowFailure(screen, e)
                   [] pc = "form" -> AppShowFormFailure(screen, e)
                   [] OTHER -> AppShowQuickFailure(screen, e)
    /\ pc' = AfterRun(pc)
    /\ UNCHANGED <<i, tools, agent>>
    /\ UNCHANGED widgetVars
    /\ UNCHANGED splitVars
    /\ UNCHANGED tmpVars
    /\ UNCHANGED liteVars
    /\ UNCHANGED travelVars
    /\ UNCHANGED sqlVars
    /\ UNCHANGED keyVars
    /\ UNCHANGED loopVars
    /\ UNCHANGED appVars
    /\ UNCHANGED <<iterations, intermediate_steps, action, observation, asked>>

\* a loop that goes back to thinking with the observation not yet recorded
ObservesAndThinks(name, text) ==
    /\ state' = "Thinking"
    /\ action' = name
    /\ observation' = text
    /\ UNCHANGED scriptVars
    /\ UNCHANGED widgetVars
    /\ UNCHANGED splitVars
    /\ UNCHANGED tmpVars
    /\ UNCHANGED liteVars
    /\ UNCHANGED travelVars
    /\ UNCHANGED sqlVars
    /\ UNCHANGED keyVars
    /\ UNCHANGED loopVars
    /\ UNCHANGED appVars
    /\ UNCHANGED <<iterations, intermediate_steps, asked>>

\* the step now has the given observation
Observes(name, text) ==
    /\ state' = "Observing"
    /\ action' = name
    /\ observation' = text
    /\ UNCHANGED scriptVars
    /\ UNCHANGED widgetVars
    /\ UNCHANGED splitVars
    /\ UNCHANGED tmpVars
    /\ UNCHANGED liteVars
    /\ UNCHANGED travelVars
    /\ UNCHANGED sqlVars
    /\ UNCHANGED keyVars
    /\ UNCHANGED loopVars
    /\ UNCHANGED appVars
    /\ UNCHANGED <<iterations, intermediate_steps, asked>>

\* a test that lets one iteration more through
ShouldContinueOnceMore(executor, n) == n <= executor.max_iterations

\* "while self._should_continue(iterations, time_elapsed)"
ShouldContinue(executor, n) == n < executor.max_iterations

Thinking ==
    /\ Running
    /\ state = "Thinking"
    /\ ShouldContinue(agent, iterations)

\* the LLM's response is "Final Answer: ..."
ThinkFinalAnswer ==
    /\ Thinking
    /\ Returns("Finished", "final answer")

\* the LLM's response is "Action: name / Action Input: ..."
ThinkToolChoice ==
    /\ Thinking
    /\ \E name \in ToolNames(agent.tools) \cup {UnknownTool} :
        /\ state' = "ActionSelected"
        /\ action' = name
    /\ UNCHANGED scriptVars
    /\ UNCHANGED widgetVars
    /\ UNCHANGED splitVars
    /\ UNCHANGED tmpVars
    /\ UNCHANGED liteVars
    /\ UNCHANGED travelVars
    /\ UNCHANGED sqlVars
    /\ UNCHANGED keyVars
    /\ UNCHANGED loopVars
    /\ UNCHANGED appVars
    /\ UNCHANGED <<iterations, intermediate_steps, observation, tool_calls, asked>>

\* the LLM's response is neither: the output parser raises
ThinkUnparseable ==
    /\ Thinking
    /\ IF agent.handle_parsing_errors
       THEN /\ Observes([prefix |-> "_Exception", filename |-> << >>],
                        "Invalid or incomplete response")
            /\ UNCHANGED tool_calls
       ELSE /\ Raises("An output parsing error occurred.")
            /\ UNCHANGED tool_calls

\* the call of the LLM itself raises
ThinkLLMError ==
    /\ Thinking
    /\ Raises("LLM call failed")
    /\ UNCHANGED tool_calls

\* the chosen tool is looked up by name and run
InvokeTool ==
    /\ Running
    /\ state = "ActionSelected"
    /\ IF action \in DOMAIN NameToToolMap(agent.tools)
       THEN \E outcome \in {"returns", "raises"} :
                IF outcome = "returns"
                THEN /\ Observes(action, "tool output")
                     /\ tool_calls' = [tool_calls EXCEPT !.returned = TRUE]
                ELSE /\ Raises("tool failed")
                     /\ tool_calls' = [tool_calls EXCEPT !.raised = TRUE]
       ELSE /\ Observes(action, "is not a valid tool, try one of")
            /\ UNCHANGED tool_calls

\* intermediate_steps.extend(next_step_output); iterations += 1
RecordObservation ==
    /\ Running
    /\ state = "Observing"
    /\ intermediate_steps' = intermediate_steps + 1
    /\ iterations' = iterations + 1
    /\ state' = "Thinking"
    /\ action' = None
    /\ observation' = ""
    /\ UNCHANGED <<tool_calls, asked>>
    /\ UNCHANGED scriptVars
    /\ UNCHANGED widgetVars
    /\ UNCHANGED splitVars
    /\ UNCHANGED tmpVars
    /\ UNCHANGED liteVars
    /\ UNCHANGED travelVars
    /\ UNCHANGED sqlVars
    /\ UNCHANGED keyVars
    /\ UNCHANGED loopVars
    /\ UNCHANGED appVars

\* the loop ends without a final answer: return_stopped_response("force")
IterationLimit ==
    /\ Running
    /\ state = "Thinking"
    /\ ~ShouldContinue(agent, iterations)
    /\ Returns("Aborted", IterationLimitText)

(***************************************************************************)
(* Specification.                                                          *)
(***************************************************************************)
Script ==
    \/ LoadKey
    \/ FileLoop
    \/ CreateAgent
    \/ NoTools
    \/ ThinkFinalAnswer
    \/ ThinkToolChoice
    \/ ThinkUnparseable
    \/ ThinkLLMError
    \/ InvokeTool
    \/ RecordObservation
    \/ IterationLimit

Next ==
    \/ UserUploads
    \/ UserRemoves
    \/ UserAsks
    \/ LoadKey
    \/ FileLoop
    \/ CreateAgent
    \/ NoTools
    \/ ThinkFinalAnswer
    \/ ThinkToolChoice
    \/ ThinkUnparseable
    \/ ThinkLLMError
    \/ InvokeTool
    \/ RecordObservation
    \/ IterationLimit

Spec == Init /\ [][Next]_vars

\* a script run that has started goes on until it ends
FairSpec == Spec /\ WF_vars(Script)

\* a new session of app.py, before its first run: no key in the session state
AppInit ==
    /\ uploaded_files = << >>
    /\ query = ""
    /\ pc = "start"
    /\ i = 1
    /\ tools = << >>
    /\ screen = << >>
    /\ agent = None
    /\ state = "Idle"
    /\ iterations = 0
    /\ intermediate_steps = 0
    /\ action = None
    /\ observation = ""
    /\ tool_calls = NoCalls
    /\ asked = 0
    /\ script = "app"
    /\ groq_api_key = NoneText
    /\ llm = None
    /\ pdf_processed = FALSE
    /\ api_key_input = ""
    /\ uploaded_file = None
    /\ button = "none"
    /\ user_input = ""
    /\ quick_input = ""
    /\ text_splitter = None
    /\ page_content = << >>
    /\ chunks = << >>
    /\ documents = Unbound
    /\ tmp_path_exists = FALSE
    /\ client = None
    /\ pdf_text = None
    /\ question = ""
    /\ prompt = None
    /\ num_hotels_input = << >>
    /\ num_hotels = Unbound
    /\ travel_state = << >>
    /\ ran = << >>
    /\ connected = Unbound
    /\ agent_executor = Unbound
    /\ db_engine = Unbound
    /\ attempts = 0
    /\ invoked = Unbound
    /\ session_keys = {}

AppScript ==
    \/ AppSessionInit
    \/ AppKeyBlock
    \/ AppProcessButton
    \/ AppResetButton
    \/ AppRerun
    \/ AppQuestionForm
    \/ AppQuickInput
    \/ ThinkFinalAnswer
    \/ ThinkToolChoice
    \/ ThinkUnparseable
    \/ ThinkLLMError
    \/ InvokeTool
    \/ RecordObservation
    \/ IterationLimit

AppNext ==
    \/ AppUserEntersKey
    \/ AppUserChoosesFile
    \/ AppUserClicksProcess
    \/ AppUserClicksReset
    \/ AppUserSubmitsForm
    \/ AppUserQuickInput
    \/ AppSessionInit
    \/ AppKeyBlock
    \/ AppProcessButton
    \/ AppResetButton
    \/ AppRerun
    \/ AppQuestionForm
    \/ AppQuickInput
    \/ ThinkFinalAnswer
    \/ ThinkToolChoice
    \/ ThinkUnparseable
    \/ ThinkLLMError
    \/ InvokeTool
    \/ RecordObservation
    \/ IterationLimit

AppSpec == AppInit /\ [][AppNext]_vars

AppFairSpec == AppSpec /\ WF_vars(AppScript)

\* either program, started by streamlit
AllInit == Init \/ AppInit

AllScript == Script \/ AppScript

AllNext ==
    \/ UserUploads
    \/ UserRemoves
    \/ UserAsks
    \/ LoadKey
    \/ FileLoop
    \/ CreateAgent
    \/ NoTools
    \/ AppUserEntersKey
    \/ AppUserChoosesFile
    \/ AppUserClicksProcess
    \/ AppUserClicksReset
    \/ AppUserSubmitsForm
    \/ AppUserQuickInput
    \/ AppSessionInit
    \/ AppKeyBlock
    \/ AppProcessButton
    \/ AppResetButton
    \/ AppRerun
    \/ AppQuestionForm
    \/ AppQuickInput
    \/ ThinkFinalAnswer
    \/ ThinkToolChoice
    \/ ThinkUnparseable
    \/ ThinkLLMError
    \/ InvokeTool
    \/ RecordObservation
    \/ IterationLimit

AllSpec == AllInit /\ [][AllNext]_vars

AllFairSpec == AllSpec /\ WF_vars(AllScript)

(***************************************************************************)
(* split_text on its own: any text over a small alphabet, any splitter     *)
(* with chunk_overlap < chunk_size.                                        *)
(***************************************************************************)
Alphabet == {"a", "b", " ", "\n"}

Texts == UNION {[1..n -> Alphabet] : n \in 0..MaxTextLen}

Splitters ==
    {splitter \in [chunk_size : 3..MaxChunkSize, chunk_overlap : 1..MaxChunkSize] :
        splitter.chunk_overlap < splitter.chunk_size}

SplitInit ==
    /\ uploaded_files = << >>
    /\ query = ""
    /\ pc = "split"
    /\ i = 1
    /\ tools = << >>
    /\ screen = << >>
    /\ agent = None
    /\ state = "Idle"
    /\ iterations = 0
    /\ intermediate_steps = 0
    /\ action = None
    /\ observation = ""
    /\ tool_calls = NoCalls
    /\ asked = 0
    /\ script = "split_text"
    /\ groq_api_key = NoneText
    /\ llm = None
    /\ pdf_processed = FALSE
    /\ api_key_input = ""
    /\ uploaded_file = None
    /\ button = "none"
    /\ user_input = ""
    /\ quick_input = ""
    /\ text_splitter \in Splitters
    /\ page_content \in Texts
    /\ chunks = << >>
    /\ documents = Unbound
    /\ tmp_path_exists = FALSE
    /\ client = None
    /\ pdf_text = None
    /\ question = ""
    /\ prompt = None
    /\ num_hotels_input = << >>
    /\ num_hotels = Unbound
    /\ travel_state = << >>
    /\ ran = << >>
    /\ connected = Unbound
    /\ agent_executor = Unbound
    /\ db_engine = Unbound
    /\ attempts = 0
    /\ invoked = Unbound
    /\ session_keys = {}

\* docs = text_splitter.split_text(page_content)
SplitTextCall ==
    /\ script = "split_text"
    /\ pc = "split"
    /\ chunks' = SplitText(text_splitter, page_content)
    /\ pc' = "end"
    /\ UNCHANGED <<text_splitter, page_content>>
    /\ UNCHANGED loopVars
    /\ UNCHANGED tmpVars
    /\ UNCHANGED liteVars
    /\ UNCHANGED travelVars
    /\ UNCHANGED sqlVars
    /\ UNCHANGED keyVars
    /\ UNCHANGED <<i, tools, screen, agent>>
    /\ UNCHANGED widgetVars
    /\ UNCHANGED appVars
    /\ UNCHANGED runVars

SplitNext == SplitTextCall

SplitSpec == SplitInit /\ [][SplitNext]_vars


(***************************************************************************)
(* Properties of the ingestion loop.                                       *)
(***************************************************************************)
\* the run has gone through the file loop
IngestionEnded == pc \in {"run", "end"}

FileName(k) == LowerStr(uploaded_files[k].name)
IsSupported(k) == Branch(FileName(k)) # "unsupported"

\* the temporary copies (one per upload, numbered by upload position) whose
\* content a tool answers from
SourcesOf(tool) ==
    IF tool.kind = "retrieval"
    THEN {tool.backing.chunks[c].source : c \in 1..Len(tool.backing.chunks)}
    ELSE {tool.backing.source}

\* positions in the tool list of the tools built from upload k
ToolsFrom(k) == {m \in 1..Len(tools) : k \in SourcesOf(tools[m])}

\* the stage at which the ingestion of a file fails, if any
Extracted(file) ==
    LET branch == Branch(LowerStr(file.name))
    IN  IF branch = "image" THEN ImageLoad(file.content, 0)
        ELSE IF branch = "spreadsheet" THEN SpreadsheetLoad(file.content, 0)
        ELSE LoaderLoad(file.content, 0)
IsTextKind(file) == Branch(LowerStr(file.name)) \in {"pdf", "docx", "pptx", "image"}
ExtractionFails(file) == Extracted(file).raised
ChunkingFails(file) ==
    /\ IsTextKind(file)
    /\ ~ExtractionFails(file)
    /\ SplitStage(Extracted(file).value).raised
IndexBuildFails(file) ==
    /\ IsTextKind(file)
    /\ ~ExtractionFails(file)
    /\ ~ChunkingFails(file)
    /\ FaissFromDocuments(SplitStage(Extracted(file).value).value).raised
IngestionFails(k) ==
    \/ ExtractionFails(uploaded_files[k])
    \/ ChunkingFails(uploaded_files[k])
    \/ IndexBuildFails(uploaded_files[k])

\* number of skips / errors on the page that name the file
SkipsReported(filename) ==
    Cardinality({m \in 1..Len(screen) :
        screen[m] = Message("warning", "Unsupported file type", filename)})
ErrorsReported(filename) ==
    Cardinality({m \in 1..Len(screen) :
        /\ screen[m].level = "error"
        /\ screen[m].text = "Error processing"
        /\ screen[m].about[1] = filename})

\* C1: when the ingestion of the uploads has ended, every upload of an
\* unsupported kind has no tool and one reported skip, and every upload of a
\* supported kind that holds readable text has its tool in the registry.
C1_UnsupportedSkippedOthersRegistered ==
    (IngestionEnded /\ \E u \in 1..Len(uploaded_files) : ~IsSupported(u)) =>
        \A k \in 1..Len(uploaded_files) :
            IF IsSupported(k)
            THEN uploaded_files[k].content = "text" => Cardinality(ToolsFrom(k)) = 1
            ELSE /\ ToolsFrom(k) = {}
                 /\ SkipsReported(FileName(k)) =
                        Cardinality({n \in 1..Len(uploaded_files) :
                                        ~IsSupported(n) /\ FileName(n) = FileName(k)})

\* C2: whichever uploads fail in extraction, chunking or index build, the
\* loop goes through every upload; each supported upload processed so far
\* that does not fail has exactly one tool, each that fails has none and its
\* own error on the page.
C2_FailuresIsolated ==
    /\ IngestionEnded => i = Len(uploaded_files) + 1
    /\ \A k \in 1..Len(uploaded_files) :
        (IsSupported(k) /\ (k < i \/ IngestionEnded)) =>
            IF IngestionFails(k)
            THEN /\ ToolsFrom(k) = {}
                 /\ ErrorsReported(FileName(k)) =
                        Cardinality({n \in 1..Len(uploaded_files) :
                            /\ n < i \/ IngestionEnded
                            /\ IsSupported(n)
                            /\ IngestionFails(n)
                            /\ FileName(n) = FileName(k)})
            ELSE Cardinality(ToolsFrom(k)) = 1

\* a failing upload was followed by one that was ingested
C2_Witness ==
    /\ IngestionEnded
    /\ \E k \in 1..Len(uploaded_files) : \E n \in (k + 1)..Len(uploaded_files) :
        /\ IsSupported(k) /\ IngestionFails(k)
        /\ IsSupported(n) /\ ~IngestionFails(n)
        /\ Cardinality(ToolsFrom(n)) = 1

\* C3: when the ingestion ended with an empty tool list, no agent exists, the
\* reasoning loop is not entered, no question is pending, and the page says
\* that there is nothing to query.
C3_EmptyRegistryShortCircuits ==
    (IngestionEnded /\ tools = << >>) =>
        /\ agent = None
        /\ pc = "end"
        /\ state = "Idle"
        /\ iterations = 0 /\ intermediate_steps = 0
        /\ query = ""
        /\ screen # << >>
        /\ screen[Len(screen)] =
                Message("warning", "Please upload at least one supported file.", << >>)

\* files were uploaded, none was ingested
C3_Witness ==
    /\ IngestionEnded
    /\ uploaded_files # << >>
    /\ tools = << >>

\* C9: no two tools of the list have the same name.
C9_ToolNamesUnique ==
    \A m, n \in 1..Len(tools) : m # n => tools[m].name # tools[n].name

\* the reasoning agent of lines 129-134 exists; inside the loop the variable
\* agent holds the executor of the last spreadsheet (line 88), which is not it
AgentOverTools == agent # None /\ "df" \notin DOMAIN agent

\* C10: the tools are in the order in which their files were uploaded, and
\* the reasoning agent lists them in that order.
C10_ToolsInUploadOrder ==
    /\ \A m, n \in 1..Len(tools) :
            m < n => \A a \in SourcesOf(tools[m]) : \A b \in SourcesOf(tools[n]) : a < b
    /\ AgentOverTools =>
            PromptTools(agent) = [k \in 1..Len(tools) |-> tools[k].name]

\* an agent over two tools
C10_Witness ==
    /\ AgentOverTools
    /\ Len(PromptTools(agent)) >= 2


(***************************************************************************)
(* Properties of question answering.                                       *)
(***************************************************************************)
\* the answers on the page: what st.write shows under an "Answer:" header
Answers ==
    {m \in 1..Len(screen) :
        /\ screen[m].level = "write"
        /\ m > 1
        /\ screen[m - 1].text = "Answer:"}

\* the failure messages of the question handlers on the page: Multiagent.py
\* line 146, app.py line 188 (form) and line 201 (quick input)
FailureMessages ==
    {m \in 1..Len(screen) :
        /\ screen[m].level = "error"
        /\ screen[m].text \in {"Failed to answer", "Error generating answer", "Error"}}

\* the failure messages of the form of app.py
FormFailures == {m \in FailureMessages : screen[m].text = "Error generating answer"}

\* app.py line 189: the second st.error of the form's except clause, with the
\* traceback, right under its failure message
DebugInfos ==
    {m \in 1..Len(screen) :
        /\ screen[m].level = "error"
        /\ screen[m].text = "Debug info"
        /\ m > 1
        /\ screen[m - 1].text = "Error generating answer"}

\* the textual results on the page: every text a question handler has
\* written for a question, an answer or an error
Results == Answers \cup FailureMessages \cup DebugInfos

RunEnded == pc = "end" /\ state # "Idle"

\* C4 as stated: every call of agent.run comes back to the script, in
\* Multiagent.py and in both question handlers of app.py, and when the k-th
\* call of a script run has come back the page holds exactly k textual
\* results, one per question; while the k-th call is going on it holds k - 1.
C4_ExactlyOneTextualResult ==
    /\ Running ~> ~Running
    /\ [](Running => Cardinality(Results) = asked - 1)
    /\ [](~Running => Cardinality(Results) = asked)

\* C4, amended: every call of agent.run comes back to the script, and when
\* the k-th call of a script run has come back the page holds exactly k
\* outcomes, an answer or a failure message each (k - 1 while the k-th call is
\* going on); the only other text a question leaves is the debug info of the
\* form of app.py, one right under each of the form's failure messages and
\* about the same exception: the step in which a call comes back writes an
\* answer under its header, or one error, or the form's two errors.
C4_EveryQuestionGetsOneOutcome ==
    /\ Running ~> ~Running
    /\ [](Running => Cardinality(Answers \cup FailureMessages) = asked - 1)
    /\ [](~Running => Cardinality(Answers \cup FailureMessages) = asked)
    /\ [](\A m \in FormFailures :
            /\ m < Len(screen)
            /\ screen[m + 1] = Message("error", "Debug info", screen[m].about))
    /\ [](Cardinality(DebugInfos) = Cardinality(FormFailures))
    /\ [][(Running /\ ~Running') =>
            (/\ Len(screen') \in {Len(screen) + 1, Len(screen) + 2}
             /\ SubSeq(screen', 1, Len(screen)) = screen
             /\ \A m \in (Len(screen) + 1)..Len(screen') :
                    m \in Results' \/ screen'[m].text = "Answer:")]_vars

\* a run of app.py in which the form's question failed, which left the
\* failure message and the debug info, and the quick input's question was
\* answered: two questions, two outcomes, three texts
C4_Witness ==
    /\ script = "app"
    /\ pc = "end"
    /\ asked = 2
    /\ state = "Finished"
    /\ Cardinality(FormFailures) = 1
    /\ Cardinality(DebugInfos) = 1
    /\ Cardinality(Answers) = 1
    /\ Cardinality(Results) = 3

\* C5: a run in which every tool call failed ends Aborted after exactly
\* max_iterations cycles, with the "could not complete" text as its result.
C5_AlwaysFailingToolAborts ==
    (RunEnded /\ tool_calls.raised /\ ~tool_calls.returned) =>
        /\ state = "Aborted"
        /\ iterations = max_iterations
        /\ \E m \in Results : screen[m] = Message("write", IterationLimitText, << >>)

\* C6: the reasoning loop never exceeds its iteration budget and every run
\* ends in Finished or Aborted.
C6_RunEndsFinishedOrAborted ==
    /\ iterations <= max_iterations
    /\ RunEnded => state \in {"Finished", "Aborted"}

\* C7: whatever tool name was chosen and whatever the tool does, the step
\* that follows the choice has an observation and the loop goes on.
C7_ToolFailureBecomesObservation ==
    [][(pc = "run" /\ state = "ActionSelected") =>
            (pc' = "run" /\ state' = "Observing" /\ observation' # "")]_vars

\* C8: an LLM response that cannot be parsed is never raised to the caller of
\* agent.run.
C8_ParseFailureNotRaised ==
    \A m \in 1..Len(screen) :
        screen[m] # Message("error", "Failed to answer",
                            << "An output parsing error occurred." >>)

(***************************************************************************)
(* Properties of the registry as the agent sees it.                        *)
(***************************************************************************)
\* upload k has been dealt with: it has its tool, or its error or skip is on
\* the page
Settled(k) ==
    \/ Cardinality(ToolsFrom(k)) = 1
    \/ ErrorsReported(FileName(k)) >= 1
    \/ SkipsReported(FileName(k)) >= 1

\* C11: in Multiagent.py the reasoning agent exists, and a question is in the reasoning
\* loop, only when the file loop has gone through every upload, each of them
\* ingested, failed or skipped; the agent holds exactly the tools of the list,
\* and no step taken while a question is being answered changes the list or
\* the agent.
C11_RegistryCompleteBeforeAgent ==
    /\ []((script = "Multiagent" /\ (AgentOverTools \/ Running)) =>
            /\ i = Len(uploaded_files) + 1
            /\ \A k \in 1..Len(uploaded_files) : Settled(k)
            /\ AgentOverTools
            /\ agent.tools = tools)
    /\ [][Running => (tools' = tools /\ agent' = agent)]_vars

\* a tool is being invoked for a question over two uploads, one of which failed
C11_Witness ==
    /\ script = "Multiagent"
    /\ pc = "run"
    /\ state = "Observing"
    /\ Len(uploaded_files) = 2
    /\ Len(tools) = 1
    /\ \E k \in 1..2 : IsSupported(k) /\ IngestionFails(k)

(***************************************************************************)
(* Properties of the end of a run of the reasoning loop.                   *)
(***************************************************************************)
\* C12: in app.py the loop enters Finished only from Thinking, by a step that
\* invokes no tool and records no step, and that step puts the LLM's final
\* answer on the page as the result; Finished is left only by the next
\* question or the next script run; and every tool invocation of a run is one
\* of the single registered retrieval tool.
C12_FinalAnswerFinishes ==
    /\ [][(state # "Finished" /\ state' = "Finished") =>
            /\ state = "Thinking"
            /\ tool_calls' = tool_calls
            /\ intermediate_steps' = intermediate_steps
            /\ iterations' = iterations
            /\ screen' = screen \o << Message("success", "Answer:", << >>),
                                      Message("write", "final answer", << >>) >>]_vars
    /\ [][(state = "Finished" /\ state' # "Finished") =>
            (asked' = asked + 1 \/ asked' = 0)]_vars
    /\ [][(tool_calls' # tool_calls /\ asked' = asked) =>
            /\ Len(agent.tools) = 1
            /\ agent.tools[1].kind = "retrieval"
            /\ action = agent.tools[1].name]_vars

\* a question answered after one invocation of the PDF retriever
C12_Witness ==
    /\ script = "app"
    /\ asked = 1
    /\ state = "Finished"
    /\ intermediate_steps = 1
    /\ tool_calls = [returned |-> TRUE, raised |-> FALSE]
    /\ screen[Len(screen)] = Message("write", "final answer", << >>)

(***************************************************************************)
(* Properties of artifacts without content.                                *)
(***************************************************************************)
\* the extraction of the content succeeds and gives no chunk: no page, or
\* pages without text
NoChunks(content) ==
    LET loaded == LoaderLoad(content, 0)
    IN  /\ ~loaded.raised
        /\ \/ loaded.value = << >>
           \/ SplitDocuments(loaded.value) = Ok(<< >>)

EmptyChunks(file) ==
    /\ Branch(LowerStr(file.name)) \in {"pdf", "docx", "pptx"}
    /\ NoChunks(file.content)

IndexedChunks(registry) ==
    \A m \in 1..Len(registry) :
        registry[m].kind = "retrieval" => registry[m].backing.chunks # << >>

\* C13: an upload whose extraction gives no chunk has no tool and an error
\* on the page once the loop of Multiagent.py has passed it; no retrieval
\* tool of the list or of an agent stands on an index without chunks; and
\* processing such a PDF in app.py leaves the session's agent and its
\* pdf_processed flag as they were and ends with an error on the page.
C13_EmptyExtractionContributesNothing ==
    /\ [](script = "Multiagent" =>
            \A k \in 1..Len(uploaded_files) :
                (k < i /\ EmptyChunks(uploaded_files[k])) =>
                    /\ ToolsFrom(k) = {}
                    /\ ErrorsReported(FileName(k)) >= 1)
    /\ [](IndexedChunks(tools))
    /\ [](agent # None => IndexedChunks(agent.tools))
    /\ [][(/\ script = "app"
           /\ pc = "process"
           /\ button = "process"
           /\ llm # None
           /\ uploaded_file # None
           /\ NoChunks(uploaded_file.content)) =>
                /\ agent' = agent
                /\ pdf_processed' = pdf_processed
                /\ screen'[Len(screen')].level = "error"]_vars

\* a PDF of pages without text failed at the index build, another upload has
\* its tool
C13_Witness ==
    /\ script = "Multiagent"
    /\ pc = "end"
    /\ Len(tools) = 1
    /\ \E k \in 1..Len(uploaded_files) :
        /\ EmptyChunks(uploaded_files[k])
        /\ IndexBuildFails(uploaded_files[k])
        /\ ToolsFrom(k) = {}

(***************************************************************************)
(* Properties of the state of one question.                                *)
(***************************************************************************)
\* C14: every question enters the reasoning loop in the same state, Thinking
\* with no iteration done, no step recorded and no action or observation
\* pending, whatever was asked before it; and no step from the entry of a
\* question to its result changes the tool list, the agent, its tools or
\* their indexes.
C14_QuestionsIndependent ==
    /\ [][asked' = asked + 1 =>
            /\ state' = "Thinking"
            /\ iterations' = 0
            /\ intermediate_steps' = 0
            /\ action' = None
            /\ observation' = ""
            /\ Running']_vars
    /\ [][Running => (tools' = tools /\ agent' = agent)]_vars
    /\ [][(asked' = asked + 1 /\ script = "app") => agent' = agent]_vars

\* the second question of a run of app.py enters the loop after the first
\* one was answered
C14_Witness ==
    /\ script = "app"
    /\ pc = "quick"
    /\ asked = 2
    /\ state = "Thinking"
    /\ iterations = 0
    /\ intermediate_steps = 0
    /\ Cardinality(Results) = 1

(***************************************************************************)
(* Properties of split_text.                                               *)
(***************************************************************************)
SplitDone == script = "split_text" /\ pc = "end"

Prefix(s, n) == SubSeq(s, 1, n)
Suffix(s, n) == SubSeq(s, Len(s) - n + 1, Len(s))

\* the end of chunk a is the start of chunk b, over exactly n characters
OverlapBy(a, b, n) ==
    /\ Len(a) >= n
    /\ Len(b) >= n
    /\ Suffix(a, n) = Prefix(b, n)

\* C15: no chunk is longer than chunk_size, and every chunk but the last
\* starts with the last chunk_overlap characters of the chunk before it.
C15_ChunksBoundedAndOverlapping ==
    SplitDone =>
        /\ \A k \in 1..Len(chunks) : Len(chunks[k]) <= text_splitter.chunk_size
        /\ \A k \in 2..(Len(chunks) - 1) :
                OverlapBy(chunks[k - 1], chunks[k], text_splitter.chunk_overlap)

\* the texts got by laying each chunk over the end of those before it, for
\* every length over which the two agree
RECURSIVE Reconstructions(_)
Reconstructions(cs) ==
    IF cs = << >> THEN { << >> }
    ELSE IF Len(cs) = 1 THEN { cs[1] }
    ELSE LET last == cs[Len(cs)]
             before == cs[Len(cs) - 1]
         IN  { front \o SubSeq(last, n + 1, Len(last)) :
                    front \in Reconstructions(SubSeq(cs, 1, Len(cs) - 1)),
                    n \in {m \in 0..Len(last) : OverlapBy(before, last, m)} }

\* C16: the text is what the chunks give when they are concatenated with
\* their overlaps removed.
C16_ChunksReconstructText ==
    SplitDone => page_content \in Reconstructions(chunks)

(***************************************************************************)
(* Properties of the steps of one run of the reasoning loop.               *)
(***************************************************************************)
\* C17: within a run the loop goes back to Thinking only from a step whose
\* observation it appends to the history by that very move; a tool is chosen
\* only in Thinking and invoked only once chosen; and while the loop thinks
\* or has chosen a tool no observation is waiting to be recorded.
C17_StepsSequential ==
    /\ [][(state' = "Thinking" /\ state # "Thinking" /\ asked' = asked) =>
            /\ state = "Observing"
            /\ observation # ""
            /\ intermediate_steps' = intermediate_steps + 1
            /\ observation' = ""]_vars
    /\ [][(state' = "ActionSelected" /\ state # "ActionSelected") =>
            (state = "Thinking" /\ observation = "")]_vars
    /\ [][(state' = "Observing" /\ state # "Observing") =>
            (state \in {"Thinking", "ActionSelected"} /\ observation = "")]_vars
    /\ [](state \in {"Thinking", "ActionSelected"} => observation = "")

\* the loop thinks for the third time, two steps recorded
C17_Witness ==
    /\ pc = "run"
    /\ state = "Thinking"
    /\ intermediate_steps = 2
    /\ observation = ""

\* what is left of the iteration budget
Remaining == max_iterations - iterations

\* C18: the steps recorded and the budget left add up to max_iterations, the
\* budget left is never negative, and the move that ends a cycle records one
\* step and takes one from the budget.
C18_StepsPlusBudget ==
    /\ [](intermediate_steps + Remaining = max_iterations)
    /\ [](Remaining >= 0)
    /\ [](agent # None => agent.max_iterations = max_iterations)
    /\ [][(state = "Observing" /\ state' = "Thinking") =>
            /\ intermediate_steps' = intermediate_steps + 1
            /\ Remaining' = Remaining - 1]_vars

\* the budget is used up and the run was stopped
C18_Witness ==
    /\ pc = "end"
    /\ state = "Aborted"
    /\ Remaining = 0
    /\ intermediate_steps = max_iterations

(***************************************************************************)
(* Properties of the tools of the artifacts.                               *)
(***************************************************************************)
\* the one tool of upload k
ToolOf(k) == tools[CHOOSE m \in ToolsFrom(k) : TRUE]

\* C19: when the ingestion has ended, every readable spreadsheet has exactly
\* one tool, a tabular one that stands on the table itself and on no index,
\* and every readable PDF, Word document, presentation and image has
\* exactly one tool, a retrieval one that stands on an index of its chunks.
C19_KindsOfTools ==
    IngestionEnded =>
        \A k \in 1..Len(uploaded_files) :
            (IsSupported(k) /\ uploaded_files[k].content = "text") =>
                /\ Cardinality(ToolsFrom(k)) = 1
                /\ IF Branch(FileName(k)) = "spreadsheet"
                   THEN /\ ToolOf(k).kind = "tabular"
                        /\ ToolOf(k).backing = SpreadsheetLoad("text", k).value
                   ELSE /\ ToolOf(k).kind = "retrieval"
                        /\ ToolOf(k).backing.chunks # << >>

\* the chunks of upload k alone, from its own temporary copy
OwnChunks(k) == SplitStage(LoaderLoad(uploaded_files[k].content, k).value).value

\* C20: every retrieval tool of the list stands on an index that holds the
\* chunks of one upload, the one the tool is named after, and nothing else;
\* no two tools share a chunk; an upload that failed has no index, whatever
\* the uploads before it left in the script's variables.
C20_IndexPerArtifact ==
    /\ \A m \in 1..Len(tools) :
            tools[m].kind = "retrieval" =>
                \E k \in 1..Len(uploaded_files) :
                    /\ k < i \/ IngestionEnded
                    /\ ~IngestionFails(k)
                    /\ tools[m].name.filename = FileName(k)
                    /\ SourcesOf(tools[m]) = {k}
                    /\ tools[m].backing.chunks = OwnChunks(k)
    /\ \A m, n \in 1..Len(tools) :
            m # n => SourcesOf(tools[m]) \cap SourcesOf(tools[n]) = {}

\* the first upload was indexed, the extraction of the second failed, and
\* the variable documents still holds the pages of the first
C20_Witness ==
    /\ script = "Multiagent"
    /\ pc = "end"
    /\ Len(uploaded_files) = 2
    /\ IsTextKind(uploaded_files[2])
    /\ ExtractionFails(uploaded_files[2])
    /\ Len(tools) = 1
    /\ tools[1].kind = "retrieval"
    /\ SourcesOf(tools[1]) = {1}
    /\ documents = Bound(LoaderLoad(uploaded_files[1].content, 1).value)

\* C21: whenever setup_agent has returned, with an agent or with None, the
\* temporary copy of the uploaded PDF that it created no longer exists
C21_TemporaryFileRemoved ==
    script = "app" /\ pc \in {"reset", "question", "quick_input", "end"}
        => ~tmp_path_exists

(***************************************************************************)
(* app_lite.py: the lite PDF assistant.  It keeps the text of the PDF in   *)
(* the session and sends the head of it with every question.  A text is    *)
(* the sequence of the runs of characters it was put together from: the    *)
(* header of a page or the extracted text of a page, cut to len            *)
(* characters.                                                             *)
(***************************************************************************)

\* pages of the uploaded PDFs of the model
MaxPages == 2

\* text[:50000] of line 81 and pdf_text[:10000] of line 113
pdf_text_limit == 50000
prompt_text_limit == 10000

Str(runs) == [runs |-> runs]

RECURSIVE RunsLen(_)
RunsLen(runs) ==
    IF runs = << >> THEN 0 ELSE Head(runs).len + RunsLen(Tail(runs))

\* len(s)
StrLen(s) == RunsLen(s.runs)

RECURSIVE RunsSlice(_, _)
RunsSlice(runs, stop) ==
    IF runs = << >> \/ stop <= 0 THEN << >>
    ELSE IF Head(runs).len <= stop
    THEN <<Head(runs)>> \o RunsSlice(Tail(runs), stop - Head(runs).len)
    ELSE << [Head(runs) EXCEPT !.len = stop] >>

SliceAll(s, stop) == s

\* s[:stop]
Slice(s, stop) == Str(RunsSlice(s.runs, stop))

\* s += piece
Concat(s, run) == IF run.len = 0 THEN s ELSE Str(Append(s.runs, run))

RECURSIVE Digits(_)
Digits(n) == IF n < 10 THEN 1 ELSE 1 + Digits(n \div 10)

\* f"\n\n--- Page {i+1} ---\n\n"
PageHeader(n) == [of |-> "header", page |-> n, len |-> 17 + Digits(n)]

\* page.extract_text() of page n, a text of len characters
PageText(n, len) == [of |-> "text", page |-> n, len |-> len]

\* lines 75-78: the loop over reader.pages
RECURSIVE ExtractPages(_, _, _)
ExtractPages(pages, n, text) ==
    IF n > Len(pages) THEN text
    ELSE ExtractPages(pages, n + 1,
                      Concat(Concat(text, PageHeader(n)), PageText(n, pages[n])))

\* the PDFs a user uploads: one PdfReader cannot read, and readable ones with
\* up to MaxPages pages whose extracted texts are empty or long
PageLengths == {0, 30000}
LitePages == UNION { [1..n -> PageLengths] : n \in 0..MaxPages }
LitePdfFiles ==
    { [readable |-> FALSE, pages |-> << >>] }
        \cup { [readable |-> TRUE, pages |-> ps] : ps \in LitePages }

\* PdfReader(tmp_path)
PdfReader(file) ==
    IF file.readable THEN Ok(file.pages) ELSE Raise("PdfReadError")

\* lines 33-39: Groq(api_key=...) and the test completion with the key
Groq(api_key) ==
    IF api_key = "bad" THEN Raise("invalid api key") ELSE Ok([api_key |-> api_key])

\* truth value of st.session_state.pdf_text
HasPdfText(value) == value # None /\ StrLen(value) > 0

\* what app_lite.py never touches
LiteFrame ==
    /\ UNCHANGED <<i, tools, agent, script>>
    /\ UNCHANGED <<llm, pdf_processed, user_input, quick_input>>
    /\ UNCHANGED widgetVars
    /\ UNCHANGED runVars
    /\ UNCHANGED splitVars
    /\ UNCHANGED loopVars
    /\ UNCHANGED travelVars
    /\ UNCHANGED sqlVars

\* a rerun of app_lite.py: an empty page, no prompt yet
LiteStartRun ==
    /\ pc' = "start"
    /\ screen' = << >>
    /\ prompt' = None
    /\ UNCHANGED <<groq_api_key, client, pdf_text, tmp_path_exists>>
    /\ UNCHANGED keyVars
    /\ LiteFrame

\* the widgets on the page at the end of a run that passed line 58
LiteUploaderShown == groq_api_key # NoneText
LiteReadButtonShown == LiteUploaderShown /\ uploaded_file # None
LiteQuestionShown == LiteUploaderShown /\ HasPdfText(pdf_text) /\ client # None

LiteUserEntersKey ==
    /\ script = "app_lite"
    /\ pc \in {"end", "rerun"}
    /\ \E text \in KeyTexts \cup {""} :
        /\ text # api_key_input
        /\ api_key_input' = text
    /\ button' = "none"
    /\ UNCHANGED <<uploaded_file, question>>
    /\ LiteStartRun

LiteUserChoosesFile ==
    /\ script = "app_lite"
    /\ pc \in {"end", "rerun"}
    /\ pc = "end" => LiteUploaderShown
    /\ \E file \in LitePdfFiles \cup {None} :
        /\ file # uploaded_file
        /\ uploaded_file' = file
    /\ button' = "none"
    /\ UNCHANGED <<api_key_input, question>>
    /\ LiteStartRun

LiteUserClicksRead ==
    /\ script = "app_lite"
    /\ pc = "end"
    /\ LiteReadButtonShown
    /\ button' = "read"
    /\ UNCHANGED <<api_key_input, uploaded_file, question>>
    /\ LiteStartRun

LiteUserAsks ==
    /\ script = "app_lite"
    /\ pc = "end"
    /\ LiteQuestionShown
    /\ \E text \in Questions \cup {""} :
        /\ text # question
        /\ question' = text
    /\ button' = "none"
    /\ UNCHANGED <<api_key_input, uploaded_file>>
    /\ LiteStartRun

LiteUserClicksReset ==
    /\ script = "app_lite"
    /\ pc = "end"
    /\ LiteUploaderShown
    /\ button' = "reset"
    /\ UNCHANGED <<api_key_input, uploaded_file, question>>
    /\ LiteStartRun

\* lines 13-18: the values the script gives to the keys the session lacks
LiteSessionDefaults == [groq_api_key |-> NoneText, pdf_text |-> None, client |-> None]

\* the keys app_lite.py keeps in st.session_state
LiteSessionKeys == {"groq_api_key", "pdf_text", "client"}

\* lines 13-18: each key the session lacks is set to its default
LiteSessionInit ==
    /\ script = "app_lite"
    /\ pc = "start"
    /\ groq_api_key' = IF "groq_api_key" \in session_keys THEN groq_api_key
                       ELSE LiteSessionDefaults.groq_api_key
    /\ pdf_text' = IF "pdf_text" \in session_keys THEN pdf_text
                   ELSE LiteSessionDefaults.pdf_text
    /\ client' = IF "client" \in session_keys THEN client ELSE LiteSessionDefaults.client
    /\ session_keys' = session_keys \cup LiteSessionKeys
    /\ pc' = "key"
    /\ UNCHANGED <<api_key_input, uploaded_file, button, question>>
    /\ UNCHANGED <<screen, prompt, tmp_path_exists>>
    /\ LiteFrame

\* lines 30-58: the API key update block and the stop without a key; widgets
\* below a stop are not on the page and lose their values
LiteKeyBlock ==
    /\ script = "app_lite"
    /\ pc = "key"
    /\ LET changed == api_key_input # "" /\ api_key_input # groq_api_key
           built == Groq(api_key_input)
           key == IF ~changed THEN groq_api_key
                  ELSE ValidatedKey(built, api_key_input)
           page == IF ~changed THEN screen
                   ELSE IF built.raised
                   THEN Append(screen, Message("error", "Invalid API Key", <<built.value>>))
                   ELSE Append(screen, Message("success", "API Key validated!", << >>))
       IN  /\ groq_api_key' = key
           /\ client' = IF ~changed THEN client
                        ELSE IF built.raised THEN None ELSE built.value
           /\ IF key = NoneText
              THEN /\ screen' = Append(page, Message("info", "Please enter your GROQ API key", << >>))
                   /\ pc' = "end"
                   /\ uploaded_file' = None
                   /\ question' = ""
              ELSE /\ screen' = page
                   /\ pc' = "read"
                   /\ UNCHANGED <<uploaded_file, question>>
    /\ UNCHANGED <<api_key_input, button, pdf_text, prompt, tmp_path_exists>>
    /\ UNCHANGED keyVars
    /\ LiteFrame

\* lines 64-89: the Read PDF button
LiteReadPdf ==
    /\ script = "app_lite"
    /\ pc = "read"
    /\ IF uploaded_file # None /\ button = "read"
       THEN LET reader == PdfReader(uploaded_file)
                text == ExtractPages(reader.value, 1, Str(<< >>))
            IN  IF reader.raised
                THEN /\ screen' = Append(screen, Message("error", "Error reading PDF",
                                                         <<reader.value>>))
                     /\ tmp_path_exists' = TRUE
                     /\ UNCHANGED pdf_text
                ELSE /\ pdf_text' = Slice(text, pdf_text_limit)
                     /\ UNCHANGED tmp_path_exists
                     /\ screen' = Append(screen, Message("success", "PDF loaded!",
                                                         <<Len(reader.value), StrLen(text)>>))
       ELSE UNCHANGED <<pdf_text, tmp_path_exists, screen>>
    /\ pc' = "chat"
    /\ UNCHANGED <<groq_api_key, client, question, prompt>>
    /\ UNCHANGED <<api_key_input, uploaded_file, button>>
    /\ UNCHANGED keyVars
    /\ LiteFrame

\* lines 92-136: the chat interface; the completion answers or raises
LiteChat ==
    /\ script = "app_lite"
    /\ pc = "chat"
    /\ IF HasPdfText(pdf_text) /\ client # None
       THEN /\ UNCHANGED question
            /\ IF question # ""
               THEN /\ prompt' = [content |-> Slice(pdf_text, prompt_text_limit),
                                  question |-> question]
                    /\ \E raised \in BOOLEAN :
                        screen' = IF raised
                                  THEN Append(screen, Message("error", "Error generating answer",
                                                              << >>))
                                  ELSE screen \o << Message("success", "Answer:", << >>),
                                                    Message("write", "answer", << >>) >>
               ELSE UNCHANGED <<prompt, screen>>
       ELSE /\ question' = ""
            /\ UNCHANGED <<prompt, screen>>
    /\ pc' = "reset"
    /\ UNCHANGED <<groq_api_key, client, pdf_text, tmp_path_exists>>
    /\ UNCHANGED <<api_key_input, uploaded_file, button>>
    /\ UNCHANGED keyVars
    /\ LiteFrame

\* lines 139-142: the Reset button deletes every key of the session state and
\* st.rerun() leaves the run; a deleted key has no value, the variables below
\* keep a placeholder until lines 13-18 of the next run set them
LiteResetButton ==
    /\ script = "app_lite"
    /\ pc = "reset"
    /\ IF button = "reset"
       THEN /\ session_keys' = {}
            /\ groq_api_key' = NoneText
            /\ pdf_text' = None
            /\ client' = None
            /\ button' = "none"
            /\ pc' = "rerun"
       ELSE /\ pc' = "status"
            /\ UNCHANGED <<groq_api_key, pdf_text, client, button, session_keys>>
    /\ UNCHANGED <<api_key_input, uploaded_file, question, tmp_path_exists>>
    /\ UNCHANGED <<screen, prompt>>
    /\ LiteFrame

\* the run st.rerun() asked for starts, the widgets as they are
LiteRerun ==
    /\ script = "app_lite"
    /\ pc = "rerun"
    /\ UNCHANGED <<api_key_input, uploaded_file, button, question>>
    /\ LiteStartRun

\* lines 145-148: the status display
LiteStatus ==
    /\ script = "app_lite"
    /\ pc = "status"
    /\ screen' = screen \o << Message("write", "API Key", <<groq_api_key # NoneText>>),
                              Message("write", "PDF", <<HasPdfText(pdf_text)>>) >>
    /\ pc' = "end"
    /\ UNCHANGED <<groq_api_key, client, pdf_text, question, prompt, tmp_path_exists>>
    /\ UNCHANGED <<api_key_input, uploaded_file, button>>
    /\ UNCHANGED keyVars
    /\ LiteFrame

\* a new session of app_lite.py, before its first run: no key in the session state
LiteInit ==
    /\ uploaded_files = << >>
    /\ query = ""
    /\ pc = "start"
    /\ i = 1
    /\ tools = << >>
    /\ screen = << >>
    /\ agent = None
    /\ state = "Idle"
    /\ iterations = 0
    /\ intermediate_steps = 0
    /\ action = None
    /\ observation = ""
    /\ tool_calls = NoCalls
    /\ asked = 0
    /\ script = "app_lite"
    /\ groq_api_key = NoneText
    /\ llm = None
    /\ pdf_processed = FALSE
    /\ api_key_input = ""
    /\ uploaded_file = None
    /\ button = "none"
    /\ user_input = ""
    /\ quick_input = ""
    /\ text_splitter = None
    /\ page_content = << >>
    /\ chunks = << >>
    /\ documents = Unbound
    /\ tmp_path_exists = FALSE
    /\ client = None
    /\ pdf_text = None
    /\ question = ""
    /\ prompt = None
    /\ num_hotels_input = << >>
    /\ num_hotels = Unbound
    /\ travel_state = << >>
    /\ ran = << >>
    /\ connected = Unbound
    /\ agent_executor = Unbound
    /\ db_engine = Unbound
    /\ attempts = 0
    /\ invoked = Unbound
    /\ session_keys = {}

LiteScript ==
    \/ LiteSessionInit
    \/ LiteKeyBlock
    \/ LiteReadPdf
    \/ LiteChat
    \/ LiteResetButton
    \/ LiteRerun
    \/ LiteStatus

LiteNext ==
    \/ LiteUserEntersKey
    \/ LiteUserChoosesFile
    \/ LiteUserClicksRead
    \/ LiteUserAsks
    \/ LiteUserClicksReset
    \/ LiteSessionInit
    \/ LiteKeyBlock
    \/ LiteReadPdf
    \/ LiteChat
    \/ LiteResetButton
    \/ LiteRerun
    \/ LiteStatus

LiteSpec == LiteInit /\ [][LiteNext]_vars

LiteFairSpec == LiteSpec /\ WF_vars(LiteScript)

\* C22: in the lite assistant the text stored in the session has at most
\* 50000 characters, and the document part of every prompt is the stored text
\* cut to its first 10000 characters
C22_StoredTextAndPromptBounded ==
    script = "app_lite" /\ "pdf_text" \in session_keys =>
        /\ pdf_text # None => StrLen(pdf_text) <= pdf_text_limit
        /\ prompt # None =>
            /\ StrLen(prompt.content) <= prompt_text_limit
            /\ prompt.content = Str(RunsSlice(pdf_text.runs, StrLen(prompt.content)))
            /\ StrLen(prompt.content) = prompt_text_limit
                  \/ prompt.content = pdf_text

\* a PDF of more than 50000 characters was read and a question was asked
C22_Witness ==
    /\ script = "app_lite"
    /\ prompt # None
    /\ StrLen(pdf_text) = pdf_text_limit
    /\ StrLen(prompt.content) = prompt_text_limit

(***************************************************************************)
(* Flighthotel.py and langgraph.py: the "how many hotels" field.  The text *)
(* of the field is a sequence of characters; int() is Python's: blanks     *)
(* around, one sign, decimal digits with single underscores between them.  *)
(***************************************************************************)

\* characters of the text typed in the field
MaxInputLen == 3

\* the characters the user types into the field: ASCII digits, the fullwidth
\* digit five, signs, blanks (a space, a tab, the separator U+001C), a point,
\* an underscore and a letter
InputAlphabet == {"0", "1", "9", "U+FF15", "-", "+", " ", "\t", "U+001C", ".", "_", "a"}
InputTexts == UNION { [1..n -> InputAlphabet] : n \in 0..MaxInputLen }

\* the characters of the Unicode category Nd (Unicode 14), one row per script,
\* each row from the digit zero to the digit nine; a character outside ASCII
\* is written as its code point
DecimalDigits == <<
    <<"0", "1", "2", "3", "4", "5", "6", "7", "8", "9">>,
    <<"U+0660", "U+0661", "U+0662", "U+0663", "U+0664", "U+0665", "U+0666", "U+0667", "U+0668", "U+0669">>,
    <<"U+06F0", "U+06F1", "U+06F2", "U+06F3", "U+06F4", "U+06F5", "U+06F6", "U+06F7", "U+06F8", "U+06F9">>,
    <<"U+07C0", "U+07C1", "U+07C2", "U+07C3", "U+07C4", "U+07C5", "U+07C6", "U+07C7", "U+07C8", "U+07C9">>,
    <<"U+0966", "U+0967", "U+0968", "U+0969", "U+096A", "U+096B", "U+096C", "U+096D", "U+096E", "U+096F">>,
    <<"U+09E6", "U+09E7", "U+09E8", "U+09E9", "U+09EA", "U+09EB", "U+09EC", "U+09ED", "U+09EE", "U+09EF">>,
    <<"U+0A66", "U+0A67", "U+0A68", "U+0A69", "U+0A6A", "U+0A6B", "U+0A6C", "U+0A6D", "U+0A6E", "U+0A6F">>,
    <<"U+0AE6", "U+0AE7", "U+0AE8", "U+0AE9", "U+0AEA", "U+0AEB", "U+0AEC", "U+0AED", "U+0AEE", "U+0AEF">>,
    <<"U+0B66", "U+0B67", "U+0B68", "U+0B69", "U+0B6A", "U+0B6B", "U+0B6C", "U+0B6D", "U+0B6E", "U+0B6F">>,
    <<"U+0BE6", "U+0BE7", "U+0BE8", "U+0BE9", "U+0BEA", "U+0BEB", "U+0BEC", "U+0BED", "U+0BEE", "U+0BEF">>,
    <<"U+0C66", "U+0C67", "U+0C68", "U+0C69", "U+0C6A", "U+0C6B", "U+0C6C", "U+0C6D", "U+0C6E", "U+0C6F">>,
    <<"U+0CE6", "U+0CE7", "U+0CE8", "U+0CE9", "U+0CEA", "U+0CEB", "U+0CEC", "U+0CED", "U+0CEE", "U+0CEF">>,
    <<"U+0D66", "U+0D67", "U+0D68", "U+0D69", "U+0D6A", "U+0D6B", "U+0D6C", "U+0D6D", "U+0D6E", "U+0D6F">>,
    <<"U+0DE6", "U+0DE7", "U+0DE8", "U+0DE9", "U+0DEA", "U+0DEB", "U+0DEC", "U+0DED", "U+0DEE", "U+0DEF">>,
    <<"U+0E50", "U+0E51", "U+0E52", "U+0E53", "U+0E54", "U+0E55", "U+0E56", "U+0E57", "U+0E58", "U+0E59">>,
    <<"U+0ED0", "U+0ED1", "U+0ED2", "U+0ED3", "U+0ED4", "U+0ED5", "U+0ED6", "U+0ED7", "U+0ED8", "U+0ED9">>,
    <<"U+0F20", "U+0F21", "U+0F22", "U+0F23", "U+0F24", "U+0F25", "U+0F26", "U+0F27", "U+0F28", "U+0F29">>,
    <<"U+1040", "U+1041", "U+1042", "U+1043", "U+1044", "U+1045", "U+1046", "U+1047", "U+1048", "U+1049">>,
    <<"U+1090", "U+1091", "U+1092", "U+1093", "U+1094", "U+1095", "U+1096", "U+1097", "U+1098", "U+1099">>,
    <<"U+17E0", "U+17E1", "U+17E2", "U+17E3", "U+17E4", "U+17E5", "U+17E6", "U+17E7", "U+17E8", "U+17E9">>,
    <<"U+1810", "U+1811", "U+1812", "U+1813", "U+1814", "U+1815", "U+1816", "U+1817", "U+1818", "U+1819">>,
    <<"U+1946", "U+1947", "U+1948", "U+1949", "U+194A", "U+194B", "U+194C", "U+194D", "U+194E", "U+194F">>,
    <<"U+19D0", "U+19D1", "U+19D2", "U+19D3", "U+19D4", "U+19D5", "U+19D6", "U+19D7", "U+19D8", "U+19D9">>,
    <<"U+1A80", "U+1A81", "U+1A82", "U+1A83", "U+1A84", "U+1A85", "U+1A86", "U+1A87", "U+1A88", "U+1A89">>,
    <<"U+1A90", "U+1A91", "U+1A92", "U+1A93", "U+1A94", "U+1A95", "U+1A96", "U+1A97", "U+1A98", "U+1A99">>,
    <<"U+1B50", "U+1B51", "U+1B52", "U+1B53", "U+1B54", "U+1B55", "U+1B56", "U+1B57", "U+1B58", "U+1B59">>,
    <<"U+1BB0", "U+1BB1", "U+1BB2", "U+1BB3", "U+1BB4", "U+1BB5", "U+1BB6", "U+1BB7", "U+1BB8", "U+1BB9">>,
    <<"U+1C40", "U+1C41", "U+1C42", "U+1C43", "U+1C44", "U+1C45", "U+1C46", "U+1C47", "U+1C48", "U+1C49">>,
    <<"U+1C50", "U+1C51", "U+1C52", "U+1C53", "U+1C54", "U+1C55", "U+1C56", "U+1C57", "U+1C58", "U+1C59">>,
    <<"U+A620", "U+A621", "U+A622", "U+A623", "U+A624", "U+A625", "U+A626", "U+A627", "U+A628", "U+A629">>,
    <<"U+A8D0", "U+A8D1", "U+A8D2", "U+A8D3", "U+A8D4", "U+A8D5", "U+A8D6", "U+A8D7", "U+A8D8", "U+A8D9">>,
    <<"U+A900", "U+A901", "U+A902", "U+A903", "U+A904", "U+A905", "U+A906", "U+A907", "U+A908", "U+A909">>,
    <<"U+A9D0", "U+A9D1", "U+A9D2", "U+A9D3", "U+A9D4", "U+A9D5", "U+A9D6", "U+A9D7", "U+A9D8", "U+A9D9">>,
    <<"U+A9F0", "U+A9F1", "U+A9F2", "U+A9F3", "U+A9F4", "U+A9F5", "U+A9F6", "U+A9F7", "U+A9F8", "U+A9F9">>,
    <<"U+AA50", "U+AA51", "U+AA52", "U+AA53", "U+AA54", "U+AA55", "U+AA56", "U+AA57", "U+AA58", "U+AA59">>,
    <<"U+ABF0", "U+ABF1", "U+ABF2", "U+ABF3", "U+ABF4", "U+ABF5", "U+ABF6", "U+ABF7", "U+ABF8", "U+ABF9">>,
    <<"U+FF10", "U+FF11", "U+FF12", "U+FF13", "U+FF14", "U+FF15", "U+FF16", "U+FF17", "U+FF18", "U+FF19">>,
    <<"U+104A0", "U+104A1", "U+104A2", "U+104A3", "U+104A4", "U+104A5", "U+104A6", "U+104A7", "U+104A8", "U+104A9">>,
    <<"U+10D30", "U+10D31", "U+10D32", "U+10D33", "U+10D34", "U+10D35", "U+10D36", "U+10D37", "U+10D38", "U+10D39">>,
    <<"U+11066", "U+11067", "U+11068", "U+11069", "U+1106A", "U+1106B", "U+1106C", "U+1106D", "U+1106E", "U+1106F">>,
    <<"U+110F0", "U+110F1", "U+110F2", "U+110F3", "U+110F4", "U+110F5", "U+110F6", "U+110F7", "U+110F8", "U+110F9">>,
    <<"U+11136", "U+11137", "U+11138", "U+11139", "U+1113A", "U+1113B", "U+1113C", "U+1113D", "U+1113E", "U+1113F">>,
    <<"U+111D0", "U+111D1", "U+111D2", "U+111D3", "U+111D4", "U+111D5", "U+111D6", "U+111D7", "U+111D8", "U+111D9">>,
    <<"U+112F0", "U+112F1", "U+112F2", "U+112F3", "U+112F4", "U+112F5", "U+112F6", "U+112F7", "U+112F8", "U+112F9">>,
    <<"U+11450", "U+11451", "U+11452", "U+11453", "U+11454", "U+11455", "U+11456", "U+11457", "U+11458", "U+11459">>,
    <<"U+114D0", "U+114D1", "U+114D2", "U+114D3", "U+114D4", "U+114D5", "U+114D6", "U+114D7", "U+114D8", "U+114D9">>,
    <<"U+11650", "U+11651", "U+11652", "U+11653", "U+11654", "U+11655", "U+11656", "U+11657", "U+11658", "U+11659">>,
    <<"U+116C0", "U+116C1", "U+116C2", "U+116C3", "U+116C4", "U+116C5", "U+116C6", "U+116C7", "U+116C8", "U+116C9">>,
    <<"U+11730", "U+11731", "U+11732", "U+11733", "U+11734", "U+11735", "U+11736", "U+11737", "U+11738", "U+11739">>,
    <<"U+118E0", "U+118E1", "U+118E2", "U+118E3", "U+118E4", "U+118E5", "U+118E6", "U+118E7", "U+118E8", "U+118E9">>,
    <<"U+11950", "U+11951", "U+11952", "U+11953", "U+11954", "U+11955", "U+11956", "U+11957", "U+11958", "U+11959">>,
    <<"U+11C50", "U+11C51", "U+11C52", "U+11C53", "U+11C54", "U+11C55", "U+11C56", "U+11C57", "U+11C58", "U+11C59">>,
    <<"U+11D50", "U+11D51", "U+11D52", "U+11D53", "U+11D54", "U+11D55", "U+11D56", "U+11D57", "U+11D58", "U+11D59">>,
    <<"U+11DA0", "U+11DA1", "U+11DA2", "U+11DA3", "U+11DA4", "U+11DA5", "U+11DA6", "U+11DA7", "U+11DA8", "U+11DA9">>,
    <<"U+16A60", "U+16A61", "U+16A62", "U+16A63", "U+16A64", "U+16A65", "U+16A66", "U+16A67", "U+16A68", "U+16A69">>,
    <<"U+16AC0", "U+16AC1", "U+16AC2", "U+16AC3", "U+16AC4", "U+16AC5", "U+16AC6", "U+16AC7", "U+16AC8", "U+16AC9">>,
    <<"U+16B50", "U+16B51", "U+16B52", "U+16B53", "U+16B54", "U+16B55", "U+16B56", "U+16B57", "U+16B58", "U+16B59">>,
    <<"U+1D7CE", "U+1D7CF", "U+1D7D0", "U+1D7D1", "U+1D7D2", "U+1D7D3", "U+1D7D4", "U+1D7D5", "U+1D7D6", "U+1D7D7">>,
    <<"U+1D7D8", "U+1D7D9", "U+1D7DA", "U+1D7DB", "U+1D7DC", "U+1D7DD", "U+1D7DE", "U+1D7DF", "U+1D7E0", "U+1D7E1">>,
    <<"U+1D7E2", "U+1D7E3", "U+1D7E4", "U+1D7E5", "U+1D7E6", "U+1D7E7", "U+1D7E8", "U+1D7E9", "U+1D7EA", "U+1D7EB">>,
    <<"U+1D7EC", "U+1D7ED", "U+1D7EE", "U+1D7EF", "U+1D7F0", "U+1D7F1", "U+1D7F2", "U+1D7F3", "U+1D7F4", "U+1D7F5">>,
    <<"U+1D7F6", "U+1D7F7", "U+1D7F8", "U+1D7F9", "U+1D7FA", "U+1D7FB", "U+1D7FC", "U+1D7FD", "U+1D7FE", "U+1D7FF">>,
    <<"U+1E140", "U+1E141", "U+1E142", "U+1E143", "U+1E144", "U+1E145", "U+1E146", "U+1E147", "U+1E148", "U+1E149">>,
    <<"U+1E2F0", "U+1E2F1", "U+1E2F2", "U+1E2F3", "U+1E2F4", "U+1E2F5", "U+1E2F6", "U+1E2F7", "U+1E2F8", "U+1E2F9">>,
    <<"U+1E950", "U+1E951", "U+1E952", "U+1E953", "U+1E954", "U+1E955", "U+1E956", "U+1E957", "U+1E958", "U+1E959">>,
    <<"U+1FBF0", "U+1FBF1", "U+1FBF2", "U+1FBF3", "U+1FBF4", "U+1FBF5", "U+1FBF6", "U+1FBF7", "U+1FBF8", "U+1FBF9">> >>

\* the character is a decimal digit for int()
IsDigit(c) == \E b \in 1..Len(DecimalDigits) : \E k \in 1..10 : DecimalDigits[b][k] = c

\* the value int() gives the digit
DigitValue(c) ==
    (CHOOSE k \in 1..10 : \E b \in 1..Len(DecimalDigits) : DecimalDigits[b][k] = c) - 1

\* the blanks int() skips at both ends of its text: the characters of
\* str.isspace() but the four separators U+001C to U+001F
IntWhitespace == Whitespace \ {"U+001C", "U+001D", "U+001E", "U+001F"}

RECURSIVE IntLStrip(_)
IntLStrip(s) == IF s # << >> /\ Head(s) \in IntWhitespace THEN IntLStrip(Tail(s)) ELSE s

RECURSIVE IntRStrip(_)
IntRStrip(s) ==
    IF s # << >> /\ s[Len(s)] \in IntWhitespace
    THEN IntRStrip(SubSeq(s, 1, Len(s) - 1))
    ELSE s

IntStrip(s) == IntRStrip(IntLStrip(s))

\* the digits of an int literal, read from the left; before says what the
\* previous character was
RECURSIVE ParseDigits(_, _, _)
ParseDigits(rest, acc, before) ==
    IF rest = << >>
    THEN IF before = "digit" THEN Ok(acc) ELSE Raise("ValueError")
    ELSE IF IsDigit(Head(rest))
    THEN ParseDigits(Tail(rest), acc * 10 + DigitValue(Head(rest)), "digit")
    ELSE IF Head(rest) = "_" /\ before = "digit"
    THEN ParseDigits(Tail(rest), acc, "underscore")
    ELSE Raise("ValueError")

\* int(text)
PyInt(text) ==
    LET s == IntStrip(text)
        signed == s # << >> /\ Head(s) \in {"+", "-"}
        digits == ParseDigits(IF signed THEN Tail(s) ELSE s, 0, "start")
    IN  IF digits.raised THEN digits
        ELSE IF signed /\ Head(s) = "-" THEN Ok(0 - digits.value)
        ELSE digits

Min(a, b) == IF a < b THEN a ELSE b
Max(a, b) == IF a > b THEN a ELSE b

Warning(text) == Message("warning", text, << >>)

FlighthotelNumHotelsUnclamped(text) ==
    LET parsed == PyInt(text)
    IN  IF parsed.raised
        THEN [num_hotels |-> 1,
              messages |-> << Warning("Please enter a valid number between 1 and 10") >>]
        ELSE [num_hotels |-> parsed.value, messages |-> << >>]

\* Flighthotel.py, lines 94-104
FlighthotelNumHotels(text) ==
    LET parsed == PyInt(text)
    IN  IF parsed.raised
        THEN [num_hotels |-> 1,
              messages |-> << Warning("Please enter a valid number between 1 and 10") >>]
        ELSE IF parsed.value < 1
        THEN [num_hotels |-> 1,
              messages |-> << Warning("Minimum 1 hotel must be selected.") >>]
        ELSE IF parsed.value > 10
        THEN [num_hotels |-> 10,
              messages |-> << Warning("Maximum 10 hotels allowed. Using 10.") >>]
        ELSE [num_hotels |-> parsed.value, messages |-> << >>]

\* langgraph.py, lines 207-211
LanggraphNumHotels(text) ==
    LET parsed == PyInt(text)
    IN  IF parsed.raised
        THEN [num_hotels |-> 1,
              messages |-> << Warning("Invalid input, defaulting to 1 hotel.") >>]
        ELSE [num_hotels |-> Min(Max(parsed.value, 1), 10), messages |-> << >>]

\* what the hotels field and the planner never touch
TravelFrame ==
    /\ UNCHANGED <<i, tools, agent, script>>
    /\ UNCHANGED widgetVars
    /\ UNCHANGED runVars
    /\ UNCHANGED sessionVars
    /\ UNCHANGED appWidgetVars
    /\ UNCHANGED splitVars
    /\ UNCHANGED loopVars
    /\ UNCHANGED tmpVars
    /\ UNCHANGED liteVars
    /\ UNCHANGED sqlVars
    /\ UNCHANGED keyVars

\* a script run that has come to the hotels field, with some text in it
HotelsInit ==
    /\ uploaded_files = << >>
    /\ query = ""
    /\ pc = "num_hotels"
    /\ i = 1
    /\ tools = << >>
    /\ screen = << >>
    /\ agent = None
    /\ state = "Idle"
    /\ iterations = 0
    /\ intermediate_steps = 0
    /\ action = None
    /\ observation = ""
    /\ tool_calls = NoCalls
    /\ asked = 0
    /\ script \in {"Flighthotel", "langgraph"}
    /\ groq_api_key = NoneText
    /\ llm = None
    /\ pdf_processed = FALSE
    /\ api_key_input = ""
    /\ uploaded_file = None
    /\ button = "none"
    /\ user_input = ""
    /\ quick_input = ""
    /\ text_splitter = None
    /\ page_content = << >>
    /\ chunks = << >>
    /\ documents = Unbound
    /\ tmp_path_exists = FALSE
    /\ client = None
    /\ pdf_text = None
    /\ question = ""
    /\ prompt = None
    /\ num_hotels_input \in InputTexts
    /\ num_hotels = Unbound
    /\ travel_state = << >>
    /\ ran = << >>
    /\ connected = Unbound
    /\ agent_executor = Unbound
    /\ db_engine = Unbound
    /\ attempts = 0
    /\ invoked = Unbound
    /\ session_keys = {}

\* Flighthotel.py, lines 93-104
FlighthotelHotelsField ==
    /\ script = "Flighthotel"
    /\ pc = "num_hotels"
    /\ LET r == FlighthotelNumHotels(num_hotels_input)
       IN  /\ num_hotels' = Bound(r.num_hotels)
           /\ screen' = screen \o r.messages
    /\ pc' = "end"
    /\ UNCHANGED <<num_hotels_input, travel_state, ran>>
    /\ TravelFrame

\* langgraph.py, lines 206-211
LanggraphHotelsField ==
    /\ script = "langgraph"
    /\ pc = "num_hotels"
    /\ LET r == LanggraphNumHotels(num_hotels_input)
       IN  /\ num_hotels' = Bound(r.num_hotels)
           /\ screen' = screen \o r.messages
    /\ pc' = "end"
    /\ UNCHANGED <<num_hotels_input, travel_state, ran>>
    /\ TravelFrame

HotelsNext ==
    \/ FlighthotelHotelsField
    \/ LanggraphHotelsField

HotelsSpec == HotelsInit /\ [][HotelsNext]_vars

\* the integer a text stands for, told without int(): TRUE and the value for
\* blanks, one optional sign and digits, with single underscores between digits
IntegerTexts ==
    { t \in InputTexts :
        LET s == IntStrip(t)
            body == IF s # << >> /\ Head(s) \in {"+", "-"} THEN Tail(s) ELSE s
        IN  /\ body # << >>
            /\ \A k \in 1..Len(body) :
                \/ IsDigit(body[k])
                \/ /\ body[k] = "_"
                   /\ 1 < k /\ k < Len(body)
                   /\ IsDigit(body[k - 1]) /\ IsDigit(body[k + 1]) }

\* C23: the number of hotels is an integer from 1 to 10 whatever the text of
\* the field: a value below 1 becomes 1, a value above 10 becomes 10, a value
\* in between is kept, and a text that is not an integer becomes 1
C23_NumHotelsClamped ==
    script \in {"Flighthotel", "langgraph"} /\ num_hotels.bound =>
        LET n == num_hotels.value
            parsed == PyInt(num_hotels_input)
        IN  /\ n \in 1..10
            /\ num_hotels_input \notin IntegerTexts => n = 1
            /\ num_hotels_input \in IntegerTexts =>
                /\ ~parsed.raised
                /\ parsed.value < 1 => n = 1
                /\ parsed.value > 10 => n = 10
                /\ parsed.value \in 1..10 => n = parsed.value

\* the text "19" was cut to 10
C23_Witness ==
    /\ script = "Flighthotel"
    /\ num_hotels_input = <<"1", "9">>
    /\ num_hotels.bound
    /\ num_hotels.value = 10

(***************************************************************************)
(* langgraph.py: the graph of create_travel_planner_graph and its four     *)
(* nodes, as travel_planner.invoke(initial_state) runs them.  A node reads *)
(* keys of the state, asks the LLM, writes one key and returns the state.  *)
(* A dict is a function from its keys to its values.  The model starts    *)
(* where the handler of the Generate button enters invoke (line 282), with *)
(* the script's variables as lines 15-278 have bound them by then.  It is  *)
(* a model of these functions, not of a run of the script from its first   *)
(* line: the import of line 12 looks for StateGraph and END in             *)
(* langgraph.prebuilt while the script itself is the module langgraph, so  *)
(* a run of the script as it stands ends at that line.                     *)
(***************************************************************************)

\* d[k] = v
Put(d, k, v) == [x \in DOMAIN d \cup {k} |-> IF x = k THEN v ELSE d[x]]

\* lines 150-153: the nodes, and the keys each reads and the key it writes
Nodes ==
    [process_hotel_data |->
        [reads |-> {"hotel_info"}, writes |-> "hotel_summary"],
     process_flight_data |->
        [reads |-> {"flight_info"}, writes |-> "flight_summary"],
     process_sightseeing_data |->
        [reads |-> {"attractions_text", "city"}, writes |-> "sightseeing_summary"],
     generate_itinerary |->
        [reads |-> {"hotel_summary", "flight_summary", "sightseeing_summary",
                    "city", "stay_days", "visitor_count", "language"},
         writes |-> "final_itinerary"]]

\* lines 156-159: add_edge
Edges ==
    [process_hotel_data |-> "process_flight_data",
     process_flight_data |-> "process_sightseeing_data",
     process_sightseeing_data |-> "generate_itinerary",
     generate_itinerary |-> "END"]

\* line 162: set_entry_point
EntryPoint == "process_hotel_data"

\* the values the caller puts into initial_state
Cities == {"Agra", "Chennai"}
Languages == {"English", "Tamil"}
StayDays == {1, 3}

\* line 206: texts of the hotels field, "1" being its default
PlannerFieldTexts ==
    {<<"1">>, <<"0">>, <<"1", "0">>, <<"1", "9">>, <<"a">>, << >>}

\* lines 270-278
InitialState(hotels, city, stay_days, language) ==
    [hotel_info |-> [top |-> hotels, city |-> city],
     flight_info |-> "flights",
     attractions_text |-> [attractions |-> city],
     city |-> city,
     stay_days |-> stay_days,
     visitor_count |-> 2,
     language |-> language]

\* what a node's chain answers, told by the node and the values it was given
Answer(name, d) == [by |-> name, given |-> [k \in Nodes[name].reads |-> d[k]]]

\* one node of the graph: the chain answers and the node writes its key, or
\* the chain raises (so does a key the node reads and the state lacks) and
\* the exception leaves invoke
RunNode(name) ==
    /\ script = "langgraph"
    /\ pc = name
    /\ \E raised \in BOOLEAN :
        IF raised \/ ~(Nodes[name].reads \subseteq DOMAIN travel_state)
        THEN /\ pc' = "raised"
             /\ UNCHANGED <<travel_state, ran>>
        ELSE /\ travel_state' = Put(travel_state, Nodes[name].writes,
                                    Answer(name, travel_state))
             /\ ran' = Append(ran, name)
             /\ pc' = Edges[name]
    /\ UNCHANGED <<num_hotels_input, num_hotels, screen>>
    /\ TravelFrame

\* lines 47-64
process_hotel_data == RunNode("process_hotel_data")

\* lines 66-83
process_flight_data == RunNode("process_flight_data")

\* lines 85-103
process_sightseeing_data == RunNode("process_sightseeing_data")

\* lines 105-142
generate_itinerary == RunNode("generate_itinerary")

\* line 282: the edge to END is reached and invoke returns the state
PlannerReturn ==
    /\ script = "langgraph"
    /\ pc = "END"
    /\ pc' = "end"
    /\ UNCHANGED <<num_hotels_input, num_hotels, travel_state, ran, screen>>
    /\ TravelFrame

\* lines 281-282: the graph is compiled and invoke enters it at its entry
\* point with the initial_state of the caller.  By then the run has the key
\* of line 15 (line 21 stops without one) and the llm of line 43, lines
\* 206-211 have bound num_hotels_input and num_hotels and, for a text int()
\* rejects, written the warning, and the hotel query of line 232 has asked
\* for the top num_hotels hotels of the city
PlannerInit ==
    /\ uploaded_files = << >>
    /\ query = ""
    /\ pc = EntryPoint
    /\ i = 1
    /\ tools = << >>
    /\ agent = None
    /\ state = "Idle"
    /\ iterations = 0
    /\ intermediate_steps = 0
    /\ action = None
    /\ observation = ""
    /\ tool_calls = NoCalls
    /\ asked = 0
    /\ script = "langgraph"
    /\ groq_api_key = "gsk_1"
    /\ llm = [api_key |-> groq_api_key]
    /\ pdf_processed = FALSE
    /\ api_key_input = ""
    /\ uploaded_file = None
    /\ button = "none"
    /\ user_input = ""
    /\ quick_input = ""
    /\ text_splitter = None
    /\ page_content = << >>
    /\ chunks = << >>
    /\ documents = Unbound
    /\ tmp_path_exists = FALSE
    /\ client = None
    /\ pdf_text = None
    /\ question = ""
    /\ prompt = None
    /\ num_hotels_input \in PlannerFieldTexts
    /\ num_hotels = Bound(LanggraphNumHotels(num_hotels_input).num_hotels)
    /\ screen = LanggraphNumHotels(num_hotels_input).messages
    /\ \E city \in Cities, stay_days \in StayDays, language \in Languages :
            travel_state = InitialState(num_hotels.value, city, stay_days, language)
    /\ ran = << >>
    /\ connected = Unbound
    /\ agent_executor = Unbound
    /\ db_engine = Unbound
    /\ attempts = 0
    /\ invoked = Unbound
    /\ session_keys = {}

PlannerScript ==
    \/ process_hotel_data
    \/ process_flight_data
    \/ process_sightseeing_data
    \/ generate_itinerary
    \/ PlannerReturn

PlannerNext ==
    \/ process_hotel_data
    \/ process_flight_data
    \/ process_sightseeing_data
    \/ generate_itinerary
    \/ PlannerReturn

PlannerSpec == PlannerInit /\ [][PlannerNext]_vars

PlannerFairSpec == PlannerSpec /\ WF_vars(PlannerScript)

InvokeOrder ==
    <<"process_hotel_data", "process_flight_data",
      "process_sightseeing_data", "generate_itinerary">>

\* invoke is over: it has returned the state, or an exception has left it
InvokeOver == script = "langgraph" /\ pc \in {"end", "raised"}

PdfInit == AppInit \/ LiteInit

PdfNext == AppNext \/ LiteNext

PdfSpec == PdfInit /\ [][PdfNext]_vars

\* the run has passed the key update block
KeyBlockDone == script \in {"app", "app_lite"} /\ pc \notin {"start", "key", "rerun"}
KeyRejected ==
    /\ script \in {"app", "app_lite"}
    /\ pc = "key"
    /\ \E k \in 1..Len(screen') : screen'[k].text = "Invalid API Key"

\* C25: in both PDF assistants, after the key update block the session holds
\* a key only together with the client built for it; a rejected key leaves key
\* and client None and the run stops before the uploader and the questions
C25_KeyOnlyWithClient ==
    /\ [](KeyBlockDone /\ groq_api_key # NoneText =>
            /\ script = "app" => llm # None /\ llm.api_key = groq_api_key
            /\ script = "app_lite" => client # None /\ client.api_key = groq_api_key)
    /\ [][KeyRejected =>
            /\ groq_api_key' = NoneText
            /\ llm' = None /\ client' = None
            /\ pc' = "end"
            /\ uploaded_file' = None]_vars

\* a key was rejected in the lite assistant after a PDF had been read
C25_Witness ==
    /\ script = "app_lite"
    /\ pc = "end"
    /\ api_key_input = "bad"
    /\ groq_api_key = NoneText
    /\ client = None
    /\ pdf_text # None

KeyChanged ==
    /\ script = "app"
    /\ pc = "key"
    /\ api_key_input # ""
    /\ api_key_input # groq_api_key

\* C26: in app.py a run with a different key in the field clears the agent
\* and keeps pdf_processed; while the agent is None no question is started,
\* through the form or through the quick input; only a successful Process PDF
\* sets an agent again; a question runs against an agent only
C26_KeyChangeClearsAgent ==
    /\ [][KeyChanged => agent' = None /\ pdf_processed' = pdf_processed]_vars
    /\ [][script = "app" /\ agent = None => asked' = asked \/ asked' = 0]_vars
    /\ [][script = "app" /\ agent = None /\ agent' # None =>
            /\ pc = "process"
            /\ button = "process"
            /\ uploaded_file # None
            /\ pdf_processed']_vars
    /\ [](script = "app" /\ (pc \in {"form", "quick"} \/ asked > 0) => agent # None)

\* another valid key was entered after a PDF had been processed
C26_Witness ==
    /\ script = "app"
    /\ pc = "end"
    /\ pdf_processed
    /\ agent = None
    /\ groq_api_key # NoneText
    /\ uploaded_file # None

ProcessClicked ==
    /\ script = "app"
    /\ pc = "process"
    /\ button = "process"
    /\ uploaded_file # None
    /\ llm # None

ProcessFailed ==
    /\ ProcessClicked
    /\ \A k \in 1..Len(screen') : screen'[k].text # "Agent is ready!"

\* C27: in app.py a Process PDF whose setup_agent returns None changes no key
\* of the session state: the agent of an earlier PDF and pdf_processed stay,
\* the run goes on to the question section with them, and a question asked
\* after the failure runs against that agent
C27_FailedProcessKeepsSession ==
    /\ [][ProcessFailed =>
            /\ agent' = agent
            /\ pdf_processed' = pdf_processed
            /\ groq_api_key' = groq_api_key
            /\ llm' = llm
            /\ pc' = "reset"]_vars
    /\ [][script = "app" /\ asked' = asked + 1 =>
            /\ agent' = agent
            /\ agent # None
            /\ pdf_processed]_vars

\* a PDF that cannot be read was processed while an earlier agent was active,
\* and the quick question of the same run got its answer from that agent
C27_Witness ==
    /\ script = "app"
    /\ button = "process"
    /\ uploaded_file # None
    /\ uploaded_file.content = "corrupt"
    /\ \E k \in 1..Len(screen) : screen[k].text = "Failed to set up agent"
    /\ agent # None
    /\ pdf_processed
    /\ state = "Finished"
    /\ asked = 1

PdfFairSpec == PdfSpec /\ WF_vars(AppScript \/ LiteScript)

\* the session state as the initialization of the script leaves it
SessionInitial ==
    /\ groq_api_key = NoneText
    /\ script = "app" =>
        /\ session_keys = AppSessionKeys
        /\ agent = None /\ llm = None /\ ~pdf_processed
    /\ script = "app_lite" =>
        /\ session_keys = LiteSessionKeys
        /\ pdf_text = None /\ client = None

\* no key is left in the session state and the rerun has been asked for
SessionDeleted == session_keys = {} /\ pc = "rerun"

ResetClicked == script \in {"app", "app_lite"} /\ button = "reset"

\* C28: in both PDF assistants a click on Reset Everything is followed by the
\* deletion of every key of the session state, and that by a run whose
\* initialization sets the initial values again; the keys come back with
\* their initial values only; after it no question is started before a PDF
\* has been processed (app.py) or read (app_lite.py) again
C28_ResetRestoresInitialSession ==
    /\ ResetClicked ~> SessionDeleted
    /\ SessionDeleted ~> (SessionInitial /\ pc = "key" /\ button = "none")
    /\ [][ResetClicked /\ pc = "reset" => SessionDeleted']_vars
    /\ [][(script \in {"app", "app_lite"} /\ session_keys = {} /\ session_keys' # {})
            => (SessionInitial' /\ pc' = "key")]_vars
    /\ [][script = "app" /\ ~pdf_processed => asked' = asked \/ asked' = 0]_vars
    /\ [][script = "app" /\ ~pdf_processed /\ pdf_processed' => ProcessClicked]_vars
    /\ [][script = "app_lite" /\ prompt' # None /\ prompt' # prompt =>
            "pdf_text" \in session_keys /\ pdf_text # None]_vars
    /\ [][script = "app_lite" /\ pdf_text = None /\ pdf_text' # None =>
            pc = "read" /\ button = "read" /\ uploaded_file # None]_vars

\* the rerun after a reset of the lite assistant, before its key block: a
\* PDF had been read and a question typed, and the session is initial again
C28_Witness ==
    /\ script = "app_lite"
    /\ pc = "key"
    /\ session_keys = LiteSessionKeys
    /\ button = "none"
    /\ groq_api_key = NoneText
    /\ client = None
    /\ pdf_text = None
    /\ uploaded_file # None
    /\ question # ""

(***************************************************************************)
(* Hotel_SQL.py: the SQL agent app.  The connect button builds an agent    *)
(* executor over the database and stores it in the session; the question   *)
(* section hands the question to the stored executor.                      *)
(***************************************************************************)

\* connect attempts of a session in the model
MaxAttempts == 6

\* what Hotel_SQL.py never touches
SqlFrame ==
    /\ UNCHANGED <<i, tools, agent, script, uploaded_files>>
    /\ UNCHANGED runVars
    /\ UNCHANGED sessionVars
    /\ UNCHANGED <<api_key_input, uploaded_file, user_input, quick_input>>
    /\ UNCHANGED splitVars
    /\ UNCHANGED loopVars
    /\ UNCHANGED tmpVars
    /\ UNCHANGED liteVars
    /\ UNCHANGED travelVars
    /\ UNCHANGED keyVars

\* a rerun of Hotel_SQL.py: an empty page, nothing invoked yet
SqlStartRun ==
    /\ pc' = "start"
    /\ screen' = << >>
    /\ invoked' = Unbound
    /\ UNCHANGED <<connected, agent_executor, db_engine, attempts>>
    /\ SqlFrame

QuestionSectionShownWithExecutor(flag, executor) == executor.bound

\* line 99: st.session_state.get("connected", False) and
\* "agent_executor" in st.session_state
QuestionSectionShown(flag, executor) ==
    /\ flag.bound
    /\ flag.value
    /\ executor.bound

\* lines 26-35: the key of the environment; without one the script writes an
\* error and stops before the sidebar
SqlLoadKey ==
    /\ script = "Hotel_SQL"
    /\ pc = "start"
    /\ IF groq_api_key \in {NoneText, ""}
       THEN /\ screen' = Append(screen,
                    Message("error", "GROQ_API_KEY not found", << >>))
            /\ pc' = "stopped"
       ELSE /\ pc' = "connect"
            /\ UNCHANGED screen
    /\ UNCHANGED <<query, button>>
    /\ UNCHANGED sqlVars
    /\ SqlFrame

SqlUserClicksConnect ==
    /\ script = "Hotel_SQL"
    /\ pc = "end"
    /\ attempts < MaxAttempts
    /\ button' = "connect"
    /\ UNCHANGED query
    /\ SqlStartRun

\* lines 38-51: the user changes a field of the sidebar (server, database,
\* driver, authentication, user name, password), which starts a run like any
\* other widget; the run reads the fields into conn_str, which only a click
\* on Connect uses
SqlUserEditsSidebar ==
    /\ script = "Hotel_SQL"
    /\ pc = "end"
    /\ button' = "none"
    /\ UNCHANGED query
    /\ SqlStartRun

SqlUserAsks ==
    /\ script = "Hotel_SQL"
    /\ pc = "end"
    /\ QuestionSectionShown(connected, agent_executor)
    /\ \E text \in Questions \cup {""} :
        /\ text # query
        /\ query' = text
    /\ button' = "none"
    /\ SqlStartRun

\* lines 57-96: the connect button; SQLDatabase.from_uri, ChatGroq, the
\* toolkit and initialize_agent return, or one of them raises
SqlConnect ==
    /\ script = "Hotel_SQL"
    /\ pc = "connect"
    /\ IF button = "connect"
       THEN /\ attempts' = attempts + 1
            /\ \E raised \in BOOLEAN :
                IF raised
                THEN /\ connected' = Bound(FALSE)
                     /\ screen' = Append(screen, Message("error", "Failed to connect", << >>))
                     /\ UNCHANGED <<agent_executor, db_engine>>
                ELSE /\ agent_executor' = Bound([attempt |-> attempts + 1])
                     /\ db_engine' = Bound([attempt |-> attempts + 1])
                     /\ connected' = Bound(TRUE)
                     /\ screen' = Append(screen, Message("success",
                                            "Connected to SQL Server successfully!", << >>))
       ELSE UNCHANGED <<attempts, connected, agent_executor, db_engine, screen>>
    /\ pc' = "qa"
    /\ UNCHANGED <<query, button, invoked>>
    /\ SqlFrame

\* lines 98-134: the question section; the executor answers or raises.  The
\* steps of the answer are (AgentAction, observation) pairs, none a dict, so
\* sql_query stays None and lines 119-129 do not run
SqlQuestion ==
    /\ script = "Hotel_SQL"
    /\ pc = "qa"
    /\ IF QuestionSectionShown(connected, agent_executor)
       THEN /\ UNCHANGED query
            /\ IF query # ""
               THEN /\ invoked' = agent_executor
                    /\ \E raised \in BOOLEAN :
                        screen' = IF raised
                                  THEN Append(screen, Message("error",
                                                "Error during execution", << >>))
                                  ELSE screen \o << Message("markdown", "Answer", << >>),
                                                    Message("write", "result", << >>) >>
               ELSE UNCHANGED <<invoked, screen>>
       ELSE /\ screen' = Append(screen, Message("info",
                                    "Configure the database connection", << >>))
            /\ query' = ""
            /\ UNCHANGED invoked
    /\ pc' = "end"
    /\ UNCHANGED <<button, connected, agent_executor, db_engine, attempts>>
    /\ SqlFrame

\* a new session of Hotel_SQL.py, before its first run: nothing in the session
SqlInit ==
    /\ uploaded_files = << >>
    /\ query = ""
    /\ pc = "start"
    /\ i = 1
    /\ tools = << >>
    /\ screen = << >>
    /\ agent = None
    /\ state = "Idle"
    /\ iterations = 0
    /\ intermediate_steps = 0
    /\ action = None
    /\ observation = ""
    /\ tool_calls = NoCalls
    /\ asked = 0
    /\ script = "Hotel_SQL"
    /\ groq_api_key \in EnvironmentKeys
    /\ llm = None
    /\ pdf_processed = FALSE
    /\ api_key_input = ""
    /\ uploaded_file = None
    /\ button = "none"
    /\ user_input = ""
    /\ quick_input = ""
    /\ text_splitter = None
    /\ page_content = << >>
    /\ chunks = << >>
    /\ documents = Unbound
    /\ tmp_path_exists = FALSE
    /\ client = None
    /\ pdf_text = None
    /\ question = ""
    /\ prompt = None
    /\ num_hotels_input = << >>
    /\ num_hotels = Unbound
    /\ travel_state = << >>
    /\ ran = << >>
    /\ connected = Unbound
    /\ agent_executor = Unbound
    /\ db_engine = Unbound
    /\ attempts = 0
    /\ invoked = Unbound
    /\ session_keys = {}

SqlNext ==
    \/ SqlUserClicksConnect
    \/ SqlUserEditsSidebar
    \/ SqlUserAsks
    \/ SqlLoadKey
    \/ SqlConnect
    \/ SqlQuestion

SqlSpec == SqlInit /\ [][SqlNext]_vars

ConnectFailed ==
    /\ script = "Hotel_SQL"
    /\ pc = "connect"
    /\ button = "connect"
    /\ \E k \in 1..Len(screen') : screen'[k].text = "Failed to connect"

\* C29: in Hotel_SQL.py a question is handed to an executor only while the
\* most recent connect attempt is a successful one, and then to the executor
\* which that attempt built; a failed attempt sets connected to False and
\* leaves the executor and the engine of an earlier attempt in the session
C29_QuestionsOnlyWhenConnected ==
    /\ [](script = "Hotel_SQL" /\ invoked.bound =>
            /\ connected.bound /\ connected.value
            /\ invoked = agent_executor
            /\ invoked.value.attempt = attempts)
    /\ [][ConnectFailed =>
            /\ connected'.bound /\ ~connected'.value
            /\ agent_executor' = agent_executor
            /\ db_engine' = db_engine]_vars
    /\ [][script = "Hotel_SQL" /\ ~(connected.bound /\ connected.value) =>
            invoked' = Unbound]_vars

\* the second attempt failed: the executor of the first is in the session and
\* the page shows the hint instead of the question field
C29_Witness ==
    /\ script = "Hotel_SQL"
    /\ pc = "end"
    /\ attempts = 2
    /\ connected.bound /\ ~connected.value
    /\ agent_executor.bound /\ agent_executor.value.attempt = 1
    /\ ~invoked.bound
    /\ \E k \in 1..Len(screen) : screen[k].level = "info"

====
